---- MODULE Spec2Model ----
(***************************************************************************)
(* A model of promptsec: the guard pipeline (Protector), the attack-memory *)
(* guard with its bounded in-memory signature store, the heuristic guard,  *)
(* the canary injector and the output-phase guards.                        *)
(*                                                                         *)
(* Conventions                                                             *)
(*  - a Go string is a sequence of one-character strings;                  *)
(*  - a severity or a threshold (float64 in [0,1]) is an integer number of *)
(*    hundredths, so 0.8 is 80;                                            *)
(*  - a similarity is the exact fraction <<intersection, union>>; the Go   *)
(*    code divides two small integers, and IEEE division rounds correctly, *)
(*    so comparing the fractions compares the float64 values;              *)
(*  - Signature.Hash and Signature.CreatedAt are not modelled: no store or *)
(*    guard operation reads them.                                          *)
(***************************************************************************)
EXTENDS Integers, Sequences, FiniteSets, TLC

\* ------------------------------------------------------------------ bounds
\* capacity of the InMemoryStore built for the model (the maxSize argument)
MaxSize == 2
\* goroutines that use the store directly, in SpecStore
NumThreads == 2
\* store operations started in one behaviour of SpecStore
MaxOps == 5
\* Analyze and ValidateOutput calls in one behaviour of Spec
NumCalls == 3
\* goroutines that call Analyze at the same time, in SpecConc
NumConc == 2
\* calls made in the canary workflow
NumCanaryCalls == 2
\* calls made on the Protectors of one detector
NumDetectCalls == 2
\* longest text whose signature is compared
MaxTextLen == 3

\* ------------------------------------------------------- program constants
defaultThreshold == 80

\* ------------------------------------------------------------ strings
IsSpace(c) == c \in {" ", "\n", "\t"}

UpperCase == <<"A", "B", "C", "D", "E", "F", "G", "H", "I", "J", "K", "L", "M",
               "N", "O", "P", "Q", "R", "S", "T", "U", "V", "W", "X", "Y", "Z">>
LowerCase == <<"a", "b", "c", "d", "e", "f", "g", "h", "i", "j", "k", "l", "m",
               "n", "o", "p", "q", "r", "s", "t", "u", "v", "w", "x", "y", "z">>

\* the lower case of an ASCII byte
LowerChar(c) ==
  IF \E i \in 1..26 : UpperCase[i] = c
  THEN LowerCase[CHOOSE i \in 1..26 : UpperCase[i] = c]
  ELSE c

\* A string is the sequence of its bytes. The one character outside ASCII in
\* the model is U+023A, two bytes in UTF-8, whose lower case U+2C65 takes
\* three bytes.
UpperAStroke == <<"0xC8", "0xBA">>
LowerAStroke == <<"0xE2", "0xB1", "0xA5">>

\* strings.ToLower: the lower case of every character, encoded again
RECURSIVE ToLower(_)
ToLower(s) ==
  IF s = <<>> THEN <<>>
  ELSE IF Len(s) >= 2 /\ SubSeq(s, 1, 2) = UpperAStroke
       THEN LowerAStroke \o ToLower(SubSeq(s, 3, Len(s)))
       ELSE <<LowerChar(s[1])>> \o ToLower(Tail(s))

\* a slice expression s[lo:hi] of Go is in range when 0 <= lo <= hi <= len(s);
\* otherwise it panics
SliceInRange(s, lo, hi) == 0 <= lo /\ lo <= hi /\ hi <= Len(s)

RECURSIVE TrimLeft(_)
TrimLeft(s) == IF s # <<>> /\ IsSpace(Head(s)) THEN TrimLeft(Tail(s)) ELSE s

RECURSIVE TrimRight(_)
TrimRight(s) ==
  IF s # <<>> /\ IsSpace(s[Len(s)]) THEN TrimRight(SubSeq(s, 1, Len(s) - 1)) ELSE s

TrimSpace(s) == TrimRight(TrimLeft(s))

\* strings.Index: the 0-based offset of the first occurrence of sub, or -1
Index(s, sub) ==
  LET hits == {i \in 0..(Len(s) - Len(sub)) : SubSeq(s, i + 1, i + Len(sub)) = sub}
  IN IF hits = {} THEN -1 ELSE CHOOSE i \in hits : \A j \in hits : i <= j

IsPrefix(p, s) == Len(p) <= Len(s) /\ SubSeq(s, 1, Len(p)) = p

RECURSIVE SumOver(_, _)
SumOver(S, f) ==
  IF S = {} THEN 0
  ELSE LET k == CHOOSE x \in S : TRUE IN f[k] + SumOver(S \ {k}, f)

\* ------------------------------------------------------------ signatures
\* a signature of the text as given, neither trimmed nor lower-cased
GenerateSignature_Untrimmed(input) ==
  LET runes == input
      starts == 1..(Len(runes) - 2)
      tris == {SubSeq(runes, i, i + 2) : i \in starts}
  IN [NGrams |-> [tri \in tris |->
                    Cardinality({i \in starts : SubSeq(runes, i, i + 2) = tri})],
      Length |-> Len(runes),
      ThreatType |-> "",
      Severity |-> 0]

\* An unset ThreatType is the empty string, as in Go.
GenerateSignature(input) ==
  LET normalised == ToLower(TrimSpace(input))
      runes == normalised
      starts == 1..(Len(runes) - 2)
      tris == {SubSeq(runes, i, i + 2) : i \in starts}
  IN [NGrams |-> [tri \in tris |->
                    Cardinality({i \in starts : SubSeq(runes, i, i + 2) = tri})],
      Length |-> Len(runes),
      ThreatType |-> "",
      Severity |-> 0]

NGramCount(m, k) == IF k \in DOMAIN m THEN m[k] ELSE 0

\* a similarity that finds nothing in common between two texts without trigrams
Similarity_EmptyUnlike(s, other) ==
  IF DOMAIN s.NGrams = {} \/ DOMAIN other.NGrams = {} THEN <<0, 1>>
  ELSE
    LET keys == DOMAIN s.NGrams \cup DOMAIN other.NGrams
        mins == [k \in keys |->
                  IF NGramCount(s.NGrams, k) < NGramCount(other.NGrams, k)
                  THEN NGramCount(s.NGrams, k) ELSE NGramCount(other.NGrams, k)]
        maxs == [k \in keys |->
                  IF NGramCount(s.NGrams, k) < NGramCount(other.NGrams, k)
                  THEN NGramCount(other.NGrams, k) ELSE NGramCount(s.NGrams, k)]
        intersectionSum == SumOver(keys, mins)
        unionSum == SumOver(keys, maxs)
    IN IF unionSum = 0 THEN <<0, 1>> ELSE <<intersectionSum, unionSum>>

\* a similarity that divides by the receiver's own trigram count
Similarity_OwnTotal(s, other) ==
  IF DOMAIN s.NGrams = {} /\ DOMAIN other.NGrams = {} THEN <<1, 1>>
  ELSE IF DOMAIN s.NGrams = {} \/ DOMAIN other.NGrams = {} THEN <<0, 1>>
  ELSE
    LET keys == DOMAIN s.NGrams \cup DOMAIN other.NGrams
        mins == [k \in keys |->
                  IF NGramCount(s.NGrams, k) < NGramCount(other.NGrams, k)
                  THEN NGramCount(s.NGrams, k) ELSE NGramCount(other.NGrams, k)]
        own == [k \in keys |-> NGramCount(s.NGrams, k)]
        intersectionSum == SumOver(keys, mins)
        ownSum == SumOver(keys, own)
    IN IF ownSum = 0 THEN <<0, 1>> ELSE <<intersectionSum, ownSum>>

Similarity(s, other) ==
  IF DOMAIN s.NGrams = {} /\ DOMAIN other.NGrams = {} THEN <<1, 1>>
  ELSE IF DOMAIN s.NGrams = {} \/ DOMAIN other.NGrams = {} THEN <<0, 1>>
  ELSE
    LET keys == DOMAIN s.NGrams \cup DOMAIN other.NGrams
        mins == [k \in keys |->
                  IF NGramCount(s.NGrams, k) < NGramCount(other.NGrams, k)
                  THEN NGramCount(s.NGrams, k) ELSE NGramCount(other.NGrams, k)]
        maxs == [k \in keys |->
                  IF NGramCount(s.NGrams, k) < NGramCount(other.NGrams, k)
                  THEN NGramCount(other.NGrams, k) ELSE NGramCount(s.NGrams, k)]
        intersectionSum == SumOver(keys, mins)
        unionSum == SumOver(keys, maxs)
    IN IF unionSum = 0 THEN <<0, 1>> ELSE <<intersectionSum, unionSum>>

\* comparisons of similarities (fractions) and thresholds (hundredths)
SimLess(a, b) == a[1] * b[2] < b[1] * a[2]

\* the threshold test rejecting a similarity equal to the threshold
SimBelow_Inclusive(a, threshold) == a[1] * 100 <= threshold * a[2]

SimBelow(a, threshold) == a[1] * 100 < threshold * a[2]
SimIsOne(a) == a[1] = a[2]

\* ------------------------------------------------------------ threats
\* core.Threat; Message and Match are not modelled, an unset Start or End is 0
Threat(tt, sev, guard, start, end) ==
  [Type |-> tt, Severity |-> sev, Guard |-> guard, Start |-> start, End |-> end]

\* core.NewContext
NewContext(input) ==
  [RawInput |-> input, Input |-> input, Threats |-> <<>>,
   Metadata |-> <<>>, Halted |-> FALSE]

\* a threat put in front of the recorded ones
AddThreat_InFront(c, t) == [c EXCEPT !.Threats = <<t>> \o @]

AddThreat(c, t) == [c EXCEPT !.Threats = Append(@, t)]
Halt(c) == [c EXCEPT !.Halted = TRUE]
SetMeta(c, key, value) ==
  [c EXCEPT !.Metadata = [k \in DOMAIN c.Metadata \cup {key} |->
                            IF k = key THEN value ELSE c.Metadata[k]]]
HasMeta(c, key) == key \in DOMAIN c.Metadata

RECURSIVE AddThreats(_, _)
AddThreats(c, ts) == IF ts = <<>> THEN c ELSE AddThreats(AddThreat(c, Head(ts)), Tail(ts))

\* ------------------------------------------------------------ heuristic guard
Letters == {"a", "b", "c", "d", "e", "f", "g", "h", "i", "j", "k", "l", "m",
            "n", "o", "p", "q", "r", "s", "t", "u", "v", "w", "x", "y", "z"}
Digits == {"0", "1", "2", "3", "4", "5", "6", "7", "8", "9"}
IsLetter(c) == LowerChar(c) \in Letters
IsWordChar(c) == IsLetter(c) \/ c \in Digits \/ c = "_"

\* the characters of zeroWidthChars and of the confusables table that the
\* model's texts may hold, written as symbols
InvisibleChars == {"<ZWSP>"}
SuspiciousConfusables == {"<CYR-a>"}

leetMap ==
  [c \in {"1", "!", "|", "0", "@", "4", "$", "5", "3", "7", "+", "8", "6", "9", "2"} |->
     CASE c \in {"1", "!", "|"} -> "i"
       [] c = "0" -> "o"
       [] c \in {"@", "4"} -> "a"
       [] c \in {"$", "5"} -> "s"
       [] c = "3" -> "e"
       [] c \in {"7", "+"} -> "t"
       [] c = "8" -> "b"
       [] c \in {"6", "9"} -> "g"
       [] OTHER -> "z"]

criticalKeywords ==
  << <<"i","g","n","o","r","e">>,
     <<"s","y","s","t","e","m">>,
     <<"i","n","s","t","r","u","c","t","i","o","n","s">>,
     <<"p","r","o","m","p","t">>,
     <<"o","v","e","r","r","i","d","e">>,
     <<"d","i","s","r","e","g","a","r","d">>,
     <<"f","o","r","g","e","t">>,
     <<"p","r","e","t","e","n","d">>,
     <<"r","e","v","e","a","l">>,
     <<"a","s","s","i","s","t","a","n","t">>,
     <<"p","r","e","v","i","o","u","s">> >>

spacedKeywords ==
  << <<"i","g","n","o","r","e">>,
     <<"f","o","r","g","e","t">>,
     <<"d","i","s","r","e","g","a","r","d">>,
     <<"o","v","e","r","r","i","d","e">>,
     <<"p","r","e","t","e","n","d">>,
     <<"i","n","s","t","r","u","c","t","i","o","n","s">>,
     <<"s","y","s","t","e","m">>,
     <<"p","r","o","m","p","t">>,
     <<"b","y","p","a","s","s">>,
     <<"r","e","v","e","a","l">> >>

Contains(s, sub) == Index(s, sub) >= 0

RECURSIVE normalizeForFuzzy(_)
normalizeForFuzzy(s) ==
  IF s = <<>> THEN <<>>
  ELSE LET r == Head(s)
           lr == LowerChar(r)
           rest == normalizeForFuzzy(Tail(s))
       IN IF r \in DOMAIN leetMap THEN <<leetMap[r]>> \o rest
          ELSE IF IsLetter(lr) \/ lr \in Digits THEN <<lr>> \o rest
          ELSE IF lr \in {" ", "\t", "\n"} THEN <<" ">> \o rest
          ELSE rest

\* one row of the dynamic programme: curr[0..j-1] is built, extend it to lb
RECURSIVE LevRow(_, _, _, _, _)
LevRow(prev, curr, ai, b, j) ==
  IF j > Len(b) THEN curr
  ELSE LET cost == IF ai = b[j] THEN 0 ELSE 1
           del == prev[j + 1] + 1
           ins == curr[j] + 1
           sub == prev[j] + cost
           \* the Go code takes del, then ins if smaller, then sub if smaller
           m == LET m1 == IF ins < del THEN ins ELSE del
                IN IF sub < m1 THEN sub ELSE m1
           next == Append(curr, m)
       \* the test makes the row a value before the next column is computed
       IN IF Len(next) > 0 THEN LevRow(prev, next, ai, b, j + 1) ELSE next

RECURSIVE LevRows(_, _, _, _)
LevRows(prev, a, b, i) ==
  IF i > Len(a) THEN prev
  ELSE LET row == LevRow(prev, <<i>>, a[i], b, 1)
       IN IF Len(row) > 0 THEN LevRows(row, a, b, i + 1) ELSE row

\* rows are sequences indexed from 1, so prev[j + 1] is the Go prev[j]
levenshtein(a, b) ==
  IF Len(a) = 0 THEN Len(b)
  ELSE IF Len(b) = 0 THEN Len(a)
  ELSE LevRows([j \in 1..(Len(b) + 1) |-> j - 1], a, b, 1)[Len(b) + 1]

fuzzyContains(haystack, keyword) ==
  IF Len(keyword) = 0 THEN FALSE
  ELSE IF Contains(haystack, keyword) THEN TRUE
  ELSE LET kwRuneLen == Len(keyword)
           maxDist == IF kwRuneLen >= 8 THEN 2 ELSE 1
       IN \E winSize \in (kwRuneLen - 1)..(kwRuneLen + 1) :
            /\ winSize > 0
            /\ winSize <= Len(haystack)
            /\ \E i \in 0..(Len(haystack) - winSize) :
                 levenshtein(SubSeq(haystack, i + 1, i + winSize), keyword) <= maxDist

fuzzyMatch(input) ==
  LET normalised == normalizeForFuzzy(input)
  IN SelectSeq(criticalKeywords, LAMBDA kw : fuzzyContains(normalised, kw))

\* reSpacedChars, (?i)\b[a-z]\s[a-z](?:\s[a-z]){3,}\b: the leftmost, longest
\* run of single letters separated by single white-space characters;
\* <<>> when there is none, <<start, end>> (1-based, inclusive) otherwise
SpacedRunAt(s, i, k) ==
  /\ i + 2 * k <= Len(s)
  /\ \A j \in 0..k : IsLetter(s[i + 2 * j])
  /\ \A j \in 1..k : IsSpace(s[i + 2 * j - 1])
  /\ (i = 1 \/ ~IsWordChar(s[i - 1]))
  /\ (i + 2 * k = Len(s) \/ ~IsWordChar(s[i + 2 * k + 1]))

FindSpacedChars(s) ==
  LET starts == {i \in 1..Len(s) : \E k \in 4..Len(s) : SpacedRunAt(s, i, k)}
  IN IF starts = {} THEN <<>>
     ELSE LET i == CHOOSE x \in starts : \A y \in starts : x <= y
              ks == {k \in 4..Len(s) : SpacedRunAt(s, i, k)}
              k == CHOOSE x \in ks : \A y \in ks : x >= y
          IN <<i, i + 2 * k>>

collapseSpacedChars(s) == SelectSeq(s, LAMBDA r : r # " ")

FirstKeywordIn(lower, kws) == \E n \in 1..Len(kws) : Contains(lower, kws[n])

\* detectEncodingAttacks. The base64, hex-escape, hex-literal and unicode-escape
\* scans (steps 3 to 6) need a run of 32 base64 characters, a backslash or the
\* digits 0x..; the texts of this model are shorter than 32 characters and hold
\* neither, so those scans find nothing and only steps 1, 2 and 7 can add.
detectEncodingAttacks(input) ==
  LET invisible ==
        IF \E i \in 1..Len(input) : input[i] \in InvisibleChars
        THEN <<Threat("encoding_attack", 30, "heuristic", 0, 0)>> ELSE <<>>
      confusable ==
        IF \E i \in 1..Len(input) : input[i] \in SuspiciousConfusables
        THEN <<Threat("encoding_attack", 70, "heuristic", 0, 0)>> ELSE <<>>
      loc == FindSpacedChars(input)
      spaced ==
        IF loc = <<>> THEN <<>>
        ELSE LET collapsed == collapseSpacedChars(SubSeq(input, loc[1], loc[2]))
                 lower == ToLower(collapsed)
             IN IF FirstKeywordIn(lower, spacedKeywords)
                THEN <<Threat("encoding_attack", 80, "heuristic", 0, 0)>>
                ELSE IF Len(collapsed) >= 7
                THEN <<Threat("encoding_attack", 60, "heuristic", 0, 0)>>
                ELSE <<>>
  IN invisible \o confusable \o spaced

\* The regular-expression table is data outside the core: a pattern of the
\* model is a case-insensitive literal, (?i)lit, with its threat type and
\* severity.
Pattern(lit, tt, sev) == [lit |-> lit, threatType |-> tt, severity |-> sev]

defaultPatterns ==
  << Pattern(<<"i", "g", "n">>, "instruction_override", 90),
     Pattern(<<"r", "e", "s">>, "role_manipulation", 95) >>

\* FindStringIndex of a pattern: <<>> (nil) or <<start, end>>, 0-based
FindStringIndex(p, input) ==
  LET idx == Index(ToLower(input), p.lit)
  IN IF idx < 0 THEN <<>> ELSE <<idx, idx + Len(p.lit)>>

minSeverity(opts) ==
  IF opts.Threshold > 0 THEN opts.Threshold
  ELSE CASE opts.Preset = "moderate" -> 50
         [] opts.Preset = "lenient" -> 70
         [] OTHER -> 0

buildPatterns(opts) ==
  LET keep(p) == p.severity >= minSeverity(opts)
      custom == [n \in 1..Len(opts.CustomPatterns) |->
                   LET cp == opts.CustomPatterns[n]
                   IN Pattern(cp.lit,
                              IF cp.threatType = "" THEN "custom" ELSE cp.threatType,
                              cp.severity)]
  IN SelectSeq(defaultPatterns, keep) \o SelectSeq(custom, keep)

HeuristicNew(opts) ==
  [kind |-> "heuristic", opts |-> opts, patterns |-> buildPatterns(opts)]

\* Execute, steps 1 to 3, as loops that stop at the first threat when
\* HaltOnDetect is set. The result is [ctx, detected, returned]: returned
\* means Execute has left through one of the early returns.
RECURSIVE HeuristicPatterns(_, _, _, _)
HeuristicPatterns(g, input, r, i) ==
  IF i > Len(g.patterns) THEN r
  ELSE LET p == g.patterns[i]
           loc == FindStringIndex(p, input)
       IN IF loc = <<>> THEN HeuristicPatterns(g, input, r, i + 1)
          ELSE LET c1 == AddThreat(r.ctx,
                           Threat(p.threatType, p.severity, "heuristic", loc[1], loc[2]))
               IN IF g.opts.HaltOnDetect
                  THEN [ctx |-> Halt(c1), detected |-> TRUE, returned |-> TRUE]
                  ELSE HeuristicPatterns(g, input,
                         [ctx |-> c1, detected |-> TRUE, returned |-> FALSE], i + 1)

RECURSIVE HeuristicEncoding(_, _, _)
HeuristicEncoding(g, r, ts) ==
  IF r.returned \/ ts = <<>> THEN r
  ELSE LET c1 == AddThreat(r.ctx, Head(ts))
       IN IF g.opts.HaltOnDetect
          THEN [ctx |-> Halt(c1), detected |-> TRUE, returned |-> TRUE]
          ELSE HeuristicEncoding(g, [ctx |-> c1, detected |-> TRUE, returned |-> FALSE],
                                 Tail(ts))

\* the fuzzy step raising one threat for each keyword
HeuristicFuzzy_PerKeyword(g, r, matched) ==
  IF r.returned \/ Len(matched) < 2 THEN r
  ELSE [ctx |-> AddThreats(r.ctx,
                  [n \in 1..Len(matched) |->
                     Threat("instruction_override", 65, "heuristic", 0, 0)]),
        detected |-> TRUE, returned |-> FALSE]

HeuristicFuzzy(g, r, matched) ==
  IF r.returned \/ Len(matched) < 2 THEN r
  ELSE LET c1 == AddThreat(r.ctx, Threat("instruction_override", 65, "heuristic", 0, 0))
       IN IF g.opts.HaltOnDetect
          THEN [ctx |-> Halt(c1), detected |-> TRUE, returned |-> TRUE]
          ELSE [ctx |-> c1, detected |-> TRUE, returned |-> FALSE]

\* ------------------------------------------------------------ embedding guard
VectorSize == 256
DefaultThreshold == 75

\* the code point of a character of the model's texts (ASCII)
Ord(c) ==
  IF \E i \in 1..26 : LowerCase[i] = c THEN 96 + (CHOOSE i \in 1..26 : LowerCase[i] = c)
  ELSE IF \E i \in 1..26 : UpperCase[i] = c THEN 64 + (CHOOSE i \in 1..26 : UpperCase[i] = c)
  ELSE IF c = " " THEN 32
  ELSE 63

RECURSIVE Xor(_, _)
\* x ^ y on unsigned integers
Xor(x, y) ==
  IF x = 0 THEN y
  ELSE IF y = 0 THEN x
  ELSE ((x + y) % 2) + 2 * Xor(x \div 2, y \div 2)

\* ngramHash(a, b, c) % VectorSize. The hash is computed in uint32; XOR and
\* multiplication modulo 2^32 give the low 8 bits of their result from the low
\* 8 bits of their operands, and VectorSize is 2^8, so the bucket is computed
\* here on the low bytes of offset (0x811C9DC5) and prime (0x01000193).
ngramBucket(a, b, c) ==
  LET offset == 197
      prime == 147
      mix(h, r) == (Xor(h, r % 256) * prime) % 256
  IN mix(mix(mix(offset, a), b), c) % VectorSize

\* A []float64 is a record: len, the non-zero components as integers (vals,
\* indexed from 0), and scale2: the components are vals[i] / sqrt(scale2).
ZeroVector(n) == [len |-> n, vals |-> <<>>, scale2 |-> 1]

SumSquares(v) == SumOver(DOMAIN v.vals, [i \in DOMAIN v.vals |-> v.vals[i] * v.vals[i]])

\* L2Normalize: every component divided by the norm; the zero vector as it is
L2Normalize(v) ==
  IF SumSquares(v) = 0 THEN v ELSE [v EXCEPT !.scale2 = @ * SumSquares(v)]

\* TextToVector: bigram and trigram counts by bucket, normalised
TextToVector(text) ==
  LET runes == ToLower(text)
      bi == [i \in 1..(Len(runes) - 1) |->
               ngramBucket(Ord(runes[i]), Ord(runes[i + 1]), 0)]
      tri == [i \in 1..(Len(runes) - 2) |->
                ngramBucket(Ord(runes[i]), Ord(runes[i + 1]), Ord(runes[i + 2]))]
      hs == bi \o tri
      buckets == {hs[i] : i \in 1..Len(hs)}
  IN L2Normalize([len |-> VectorSize,
                  vals |-> [h \in buckets |-> Cardinality({i \in 1..Len(hs) : hs[i] = h})],
                  scale2 |-> 1])

Dot(a, b) ==
  LET common == DOMAIN a.vals \cap DOMAIN b.vals
  IN SumOver(common, [i \in common |-> a.vals[i] * b.vals[i]])

\* CosineSimilarity, in hundredths rounded down like every score of the
\* model: dot / (sqrt(normA) * sqrt(normB)), in which the scales cancel. The
\* vectors of the model have no negative component.
CosineSimilarity(a, b) ==
  IF a.len # b.len \/ a.len = 0 THEN 0
  ELSE IF SumSquares(a) = 0 \/ SumSquares(b) = 0 THEN 0
  ELSE LET dot == Dot(a, b)
           den == SumSquares(a) * SumSquares(b)
       IN CHOOSE h \in 0..100 :
            /\ h * h * den <= 10000 * dot * dot
            /\ (h + 1) * (h + 1) * den > 10000 * dot * dot

Vector(label, values, type) == [Label |-> label, Values |-> values, Type |-> type]

\* attackPhrases and init(): two of the built-in phrases stand for the table
attackPhrases ==
  << [text |-> <<"s", "t", "a", "t", "e", " ", "t", "h", "a", "t">>,
      label |-> "imperative_state_that", threatType |-> "instruction_override"],
     [text |-> <<"j", "e", "t", "z", "t", " ", "b", "i", "s", "t", " ", "d", "u">>,
      label |-> "de_now_you_are", threatType |-> "role_manipulation"] >>

defaultVectors ==
  [i \in 1..Len(attackPhrases) |->
     Vector(attackPhrases[i].label, TextToVector(attackPhrases[i].text),
            attackPhrases[i].threatType)]

\* embedding.New
EmbeddingNew(opts) ==
  [kind |-> "embedding",
   opts |-> [opts EXCEPT !.Threshold = IF @ = 0 THEN DefaultThreshold ELSE @],
   vectors |-> defaultVectors \o opts.CustomVectors]

\* the test of a similarity against the threshold, exclusive
EmbeddingReaches_Exclusive(sim, threshold) == sim > threshold

\* Execute, line 84: sim >= g.opts.Threshold
EmbeddingReaches(sim, threshold) == sim >= threshold

\* Execute, lines 84-98: the threat raised for vector v, if any
EmbeddingThreat(g, input, v, sim) ==
  IF EmbeddingReaches(sim, g.opts.Threshold)
  THEN <<Threat(IF v.Type = "" THEN "custom" ELSE v.Type, sim, "embedding",
                0, Len(input))>>
  ELSE <<>>

RECURSIVE EmbeddingLoop(_, _, _, _, _)
\* Execute, lines 79-99: the loop over the vectors from index i
EmbeddingLoop(g, ctx, inputVec, scores, i) ==
  IF i > Len(g.vectors) THEN [ctx |-> ctx, scores |-> scores]
  ELSE LET v == g.vectors[i]
           sim == CosineSimilarity(inputVec, v.Values)
           scores2 == [l \in DOMAIN scores \cup {v.Label} |->
                         IF l = v.Label THEN sim ELSE scores[l]]
       IN EmbeddingLoop(g, AddThreats(ctx, EmbeddingThreat(g, ctx.Input, v, sim)),
                        inputVec, scores2, i + 1)

\* ------------------------------------------------------------ canary
separator ==
  <<"\n", "\n", "[", "s", "y", "s", "t", "e", "m", ":", "c", "a", "n", "a", "r", "y", "]", " ">>

injectToken(input, token) == input \o separator \o token

\* crypto.RandomAlphaNum draws from 62 characters; two of them stand for all
AlphaNumSample == {"a", "B"}

\* generateToken with Format CanaryWord: the tokens one call may draw. The
\* model's injector is built with Options{Format: CanaryWord, Length: 1}.
generateToken(opts) == {opts.Prefix \o <<ch>> : ch \in AlphaNumSample}

metaKeyToken == "canary_token"

\* a metadata value that is not a Go string (the caller's map is map[string]any)
NotAString == <<"(int)", "7">>
IsString(v) == v # NotAString

\* the token an output guard takes from the metadata: <<>> stands for the
\* three cases in which it returns early (no key, not a string, empty)
MetaToken(c) ==
  IF ~HasMeta(c, metaKeyToken) THEN <<>>
  ELSE IF ~IsString(c.Metadata[metaKeyToken]) THEN <<>>
  ELSE c.Metadata[metaKeyToken]

stripNoise(s) == SelectSeq(s, LAMBDA c : c # " " /\ c # "-" /\ c # "_")

minPartialLen == 8

\* detectLeak: [matched, start, end]
detectLeak(output, token) ==
  LET lowerOut == ToLower(output)
      lowerTok == ToLower(token)
      normOut == stripNoise(lowerOut)
      normTok == stripNoise(lowerTok)
      subLen == Len(normTok)
      offs == {off \in 0..Len(normTok) :
                 /\ off + subLen <= Len(normTok)
                 /\ Index(normOut, SubSeq(normTok, off + 1, off + subLen)) >= 0}
      hit(idx, n) == [matched |-> TRUE, start |-> idx, end |-> idx + n]
  IN IF Index(output, token) >= 0 THEN hit(Index(output, token), Len(token))
     ELSE IF Index(lowerOut, lowerTok) >= 0 THEN hit(Index(lowerOut, lowerTok), Len(token))
     ELSE IF Index(normOut, normTok) >= 0 THEN hit(Index(normOut, normTok), Len(normTok))
     ELSE IF Len(normTok) >= minPartialLen /\ offs # {}
          THEN LET off == CHOOSE x \in offs : \A y \in offs : x <= y
               IN hit(Index(normOut, SubSeq(normTok, off + 1, off + subLen)), subLen)
     ELSE [matched |-> FALSE, start |-> 0, end |-> 0]

\* the detector taking an empty token for a token
DetectorToken_NoEmptyTest(c) ==
  IF ~HasMeta(c, metaKeyToken) \/ ~IsString(c.Metadata[metaKeyToken])
  THEN [ok |-> FALSE, token |-> <<>>]
  ELSE [ok |-> TRUE, token |-> c.Metadata[metaKeyToken]]

\* DetectorGuard.Execute, lines 48-59: the token, when the metadata holds one
DetectorToken(c) == [ok |-> MetaToken(c) # <<>>, token |-> MetaToken(c)]

\* DetectorGuard.Execute, line 69: output[start:end] with the offsets that
\* detectLeak found in the lower-cased or stripped copy
DetectorPanics(c, output) ==
  LET t == DetectorToken(c)
      leak == detectLeak(output, t.token)
  IN t.ok /\ leak.matched /\ ~SliceInRange(output, leak.start, leak.end)

\* ------------------------------------------------------------ output guard
\* checkLeaks returns nothing for an output shorter than 10 bytes after
\* trimming; a longer one is matched against the leak table (literals here).
leakPatterns ==
  << [lit |-> <<"m", "y", " ", "p", "r", "o", "m", "p", "t", " ", "i", "s">>, severity |-> 90] >>

RECURSIVE FindAll(_, _, _)
\* FindAllStringIndex of a literal: the non-overlapping occurrences from off
FindAll(s, lit, off) ==
  LET rest == SubSeq(s, off + 1, Len(s))
      idx == Index(rest, lit)
  IN IF idx < 0 \/ Len(lit) = 0 THEN <<>>
     ELSE <<(<<off + idx, off + idx + Len(lit)>>)>> \o FindAll(s, lit, off + idx + Len(lit))

RECURSIVE LeakMatches(_, _)
LeakMatches(output, n) ==
  IF n > Len(leakPatterns) THEN <<>>
  ELSE LET locs == FindAll(ToLower(output), leakPatterns[n].lit, 0)
       IN [m \in 1..Len(locs) |->
             Threat("system_prompt_leak", leakPatterns[n].severity, "output",
                    locs[m][1], locs[m][2])]
          \o LeakMatches(output, n + 1)

checkLeaks(output) ==
  IF Len(TrimSpace(output)) < 10 THEN <<>> ELSE LeakMatches(output, 1)

\* checkCanary, line 112: output[idx : idx+len(token)] with idx found in the
\* lower-cased copy of the output
checkCanaryPanics(c, output) ==
  LET token == MetaToken(c)
      idx == Index(ToLower(output), ToLower(token))
  IN token # <<>> /\ idx >= 0 /\ ~SliceInRange(output, idx, idx + Len(token))

checkCanary(c, output) ==
  LET token == MetaToken(c)
      idx == Index(ToLower(output), ToLower(token))
  IN IF token = <<>> \/ idx < 0 THEN c
     ELSE AddThreat(c, Threat("canary_leak", 100, "output", idx, idx + Len(token)))

checkSystemPromptLeaks(c, output) == AddThreats(c, checkLeaks(output))

RECURSIVE ForbiddenThreats(_, _, _)
ForbiddenThreats(compiled, output, n) ==
  IF n > Len(compiled) THEN <<>>
  ELSE LET locs == FindAll(output, compiled[n], 0)
       IN [m \in 1..Len(locs) |->
             Threat("output_violation", 80, "output", locs[m][1], locs[m][2])]
          \o ForbiddenThreats(compiled, output, n + 1)

checkForbiddenPatterns(g, c, output) ==
  AddThreats(c, ForbiddenThreats(g.opts.ForbiddenPatterns, output, 1))

validateLength(s, max) == max > 0 /\ Len(s) > max

checkMaxLength(g, c, output) ==
  IF validateLength(output, g.opts.MaxLength)
  THEN AddThreat(c, Threat("output_violation", 50, "output", 0, 0)) ELSE c

\* checkJSON: the output guards of the model are built with ValidateJSON
\* false, so the JSON parser is never reached
checkJSON(g, c, output) == c

\* checkCustom: a CustomValidator of the model is nil (<<>>) or rejects the
\* outputs that contain its literal
checkCustom(g, c, output) ==
  IF g.opts.CustomValidator = <<>> THEN c
  ELSE IF Contains(output, g.opts.CustomValidator[1])
       THEN AddThreat(c, Threat("output_violation", 70, "output", 0, 0))
       ELSE c

\* ------------------------------------------------------------ the store
Match(stored, sim) == [Signature |-> stored, Similarity |-> sim]

NewInMemoryStore(maxSize) ==
  [signatures |-> <<>>,
   maxSize |-> IF maxSize <= 0 THEN 10000 ELSE maxSize]

\* the capacity test off by one: evicts only once the slice is over capacity
AtCapacity_OffByOne(s) == Len(s.signatures) > s.maxSize

\* Add, line 54: the capacity test
AtCapacity(s) == Len(s.signatures) >= s.maxSize

\* the shift in the wrong direction: the oldest entry overwrites its successor
CopyElem_Backwards(sigs, i) == [sigs EXCEPT ![i + 1] = sigs[i]]

\* Add, line 56: one element move of copy(s.signatures, s.signatures[1:])
CopyElem(sigs, i) == [sigs EXCEPT ![i] = sigs[i + 1]]

\* the eviction without the write of the new signature
SetLast_Skipped(sigs, sig) == sigs

\* Add, line 57
SetLast(sigs, sig) == [sigs EXCEPT ![Len(sigs)] = sig]

RECURSIVE CopyFrom(_, _)
CopyFrom(sigs, i) ==
  IF i > Len(sigs) - 1 THEN sigs ELSE CopyFrom(CopyElem(sigs, i), i + 1)

\* an Add that keeps one entry per signature
Add_Merging(s, sig) ==
  IF \E k \in 1..Len(s.signatures) : s.signatures[k] = sig THEN s
  ELSE IF AtCapacity(s)
  THEN [s EXCEPT !.signatures = SetLast(CopyFrom(s.signatures, 1), sig)]
  ELSE [s EXCEPT !.signatures = Append(s.signatures, sig)]

\* Add as one step (it runs under the write lock)
Add(s, sig) ==
  IF AtCapacity(s)
  THEN [s EXCEPT !.signatures = SetLast(CopyFrom(s.signatures, 1), sig)]
  ELSE [s EXCEPT !.signatures = Append(s.signatures, sig)]

\* Search keeping the first signature that reaches the threshold
SearchIter_FirstHit(best, sig, stored, threshold) ==
  LET sim == Similarity(sig, stored)
  IN IF SimBelow(sim, threshold) THEN [best |-> best, stop |-> FALSE]
     ELSE [best |-> IF best = <<>> THEN <<Match(stored, sim)>> ELSE best,
           stop |-> SimIsOne(sim)]

\* Search, lines 73-86: one iteration of the loop. best is <<>> (nil) or
\* <<match>>; stop is the break on a perfect match.
SearchIter(best, sig, stored, threshold) ==
  LET sim == Similarity(sig, stored)
  IN IF SimBelow(sim, threshold) THEN [best |-> best, stop |-> FALSE]
     ELSE [best |-> IF best = <<>> \/ SimLess(best[1].Similarity, sim)
                    THEN <<Match(stored, sim)>> ELSE best,
           stop |-> SimIsOne(sim)]

RECURSIVE SearchLoop(_, _, _, _, _)
SearchLoop(sigs, i, sig, threshold, best) ==
  IF i > Len(sigs) THEN best
  ELSE LET r == SearchIter(best, sig, sigs[i], threshold)
       IN IF r.stop THEN r.best ELSE SearchLoop(sigs, i + 1, sig, threshold, r.best)

\* Search as one step (it runs under the read lock): <<>> when nothing
\* qualifies, <<match>> otherwise
Search(s, sig, threshold) == SearchLoop(s.signatures, 1, sig, threshold, <<>>)

StoreLen(s) == Len(s.signatures)

\* sync.RWMutex: Lock waits for the writer and for every reader, RLock waits
\* for the writer
LockFree(m) == ~m.w /\ m.r = 0

\* a read lock that does not wait for the writer
RLockFree_IgnoresWriter(m) == TRUE

RLockFree(m) == ~m.w

\* ------------------------------------------------------------ guards
\* memory.New; the model passes one shared Store in Options.Store
MemoryNew(opts) ==
  [kind |-> "memory",
   Store |-> opts.Store,
   Threshold |-> IF opts.Threshold <= 0 THEN defaultThreshold ELSE opts.Threshold]

\* canary.New with non-nil options, and Options.defaults
CanaryNew(opts) ==
  [kind |-> "canary",
   opts |-> [Length |-> IF opts.Length <= 0 THEN 16 ELSE opts.Length,
             Prefix |-> IF opts.Prefix = <<>>
                        THEN <<"C", "A", "N", "A", "R", "Y", "_">> ELSE opts.Prefix]]

DetectorNew == [kind |-> "canary-detector"]

OutputNew(opts) == [kind |-> "output", opts |-> opts]

\* promptsec.GuardFunc: a caller's guard, after the README's example. It adds
\* one threat when the input contains lit; then is what it does afterwards:
\* "next" calls the continuation, "return" returns without calling it on a
\* hit, "halt" calls ctx.Halt() on a hit and then the continuation.
GuardFunc(name, lit, tt, sev, then) ==
  [kind |-> "func", name |-> name, lit |-> lit, threatType |-> tt,
   severity |-> sev, then |-> then, output |-> FALSE]

\* a caller's guard type that also implements OutputGuard
UserOutputGuard(name, lit, tt, sev, then) ==
  [GuardFunc(name, lit, tt, sev, then) EXCEPT !.kind = "user", !.output = TRUE]

IsOutputGuard(g) ==
  \/ g.kind \in {"canary-detector", "output"}
  \/ (g.kind = "user" /\ g.output)

\* New putting every guard in both lists
New_Unsplit(guards) == [guards |-> guards, outputGuards |-> guards, threshold |-> 50]

\* promptsec.New
New(guards) ==
  [guards |-> SelectSeq(guards, LAMBDA g : ~IsOutputGuard(g)),
   outputGuards |-> SelectSeq(guards, LAMBDA g : IsOutputGuard(g)),
   threshold |-> 50]

\* runGuards without the test of the halt flag
RunGuardsStops_NoHaltTest(c, guards, idx) == idx > Len(guards)

\* the continuation stepping over a guard
NextIdx_Skips(idx) == idx + 2

\* runGuards, line 480: the continuation a guard is given runs the list from
\* the next index
NextIdx(idx) == idx + 1

\* runGuards, line 476 (idx counts from 1 here)
RunGuardsStops(c, guards, idx) == idx > Len(guards) \/ c.Halted

\* the verdict with a strict comparison
IsSafe_Strict(threats, threshold) ==
  ~\E n \in 1..Len(threats) : threats[n].Severity > threshold

\* buildResult
IsSafe(threats, threshold) ==
  ~\E n \in 1..Len(threats) : threats[n].Severity >= threshold

buildResult(p, c) ==
  [Safe |-> IsSafe(c.Threats, p.threshold),
   Threats |-> c.Threats,
   Output |-> c.Input,
   Metadata |-> c.Metadata]

\* memory Execute, lines 120-130: the type and severity taken from the
\* threats raised after the snapshot
RECURSIVE BestOf(_, _, _)
BestOf(ts, bestType, bestSev) ==
  IF ts = <<>> THEN [Type |-> IF bestType = "" THEN "custom" ELSE bestType,
                     Severity |-> bestSev]
  ELSE IF Head(ts).Severity > bestSev
       THEN BestOf(Tail(ts), Head(ts).Type, Head(ts).Severity)
       ELSE BestOf(Tail(ts), bestType, bestSev)

\* the learning test of a detector that learns nothing once the chain is halted
HasNewThreats_UnlessHalted(c, threatsBefore) ==
  ~c.Halted /\ Len(c.Threats) > threatsBefore

\* the learning test without the snapshot: any threat counts as new
HasNewThreats_NoSnapshot(c, threatsBefore) == Len(c.Threats) > 0

\* what a Store's Add may return: InMemoryStore.Add always returns nil, the
\* Add of a caller's Store may return an error (TRUE) and store nothing
StoreAddErrors(kind) == IF kind = "InMemoryStore" THEN {FALSE} ELSE {FALSE, TRUE}

\* an error of Add recorded as a threat of the call
AfterAdd_RecordsError(c, err) ==
  IF err THEN AddThreat(c, Threat("custom", 100, "memory", 0, 0))
  ELSE SetMeta(c, "memory.stored", TRUE)

\* memory Execute, lines 134-135: the error of Add is dropped
AfterAdd(c, err) == SetMeta(c, "memory.stored", TRUE)

\* memory Execute, line 118
HasNewThreats(c, threatsBefore) == Len(c.Threats) > threatsBefore

\* ------------------------------------------------------------ state
VARIABLES
  prot,    \* the Protectors built by New, sharing one store
  token,   \* the token field of each Protector's canary injector
  calls,   \* the Analyze and ValidateOutput calls: Context, position, Result
  store,   \* the InMemoryStore: [signatures, maxSize]
  mu,      \* its RWMutex: [w: a writer holds it, r: number of readers]
  tpc,     \* SpecStore: where each goroutine is inside Add, Search or Len
  tloc,    \* SpecStore: the locals of the operation each goroutine runs
  gs       \* history: the insertion-ordered contents, evictions, search hits

vars == <<prot, token, calls, store, mu, tpc, tloc, gs>>

Threads == 1..NumThreads

Typed(text, tt, sev) ==
  [GenerateSignature(text) EXCEPT !.ThreatType = tt, !.Severity = sev]

tIgnore == <<"i", "g", "n", "o", "r", "e">>
tIgnores == <<"i", "g", "n", "o", "r", "e", "s">>
tShort == <<"x", "y">>

\* the signatures the goroutines of SpecStore add and look for
StoreSigs ==
  {Typed(tIgnore, "instruction_override", 90),
   Typed(tIgnores, "role_manipulation", 40),
   Typed(tShort, "custom", 60)}

StoreThresholds == {defaultThreshold, 100}

NoLocals == [sig |-> GenerateSignature(<<>>), threshold |-> 0, i |-> 0, n |-> 0,
             best |-> <<>>, seen |-> <<>>, len |-> 0]

\* the contents a FIFO of the given capacity holds after inserting sig
FifoInsert(c, sig, cap) ==
  IF Len(c) >= cap THEN Append(Tail(c), sig) ELSE Append(c, sig)

InitStore ==
  /\ store = NewInMemoryStore(MaxSize)
  /\ mu = [w |-> FALSE, r |-> 0]
  /\ tpc = [t \in Threads |-> "idle"]
  /\ tloc = [t \in Threads |-> NoLocals]
  /\ gs = [committed |-> <<>>, evictions |-> 0, hits |-> 0, ops |-> 0]
  /\ prot = <<>>
  /\ token = <<>>
  /\ calls = <<>>

\* --- Add, store.go 49-62
AddLock(t) ==
  /\ tpc[t] = "idle"
  /\ gs.ops < MaxOps
  /\ LockFree(mu)
  /\ \E sig \in StoreSigs :
       tloc' = [tloc EXCEPT ![t] = [NoLocals EXCEPT !.sig = sig]]
  /\ mu' = [mu EXCEPT !.w = TRUE]
  /\ tpc' = [tpc EXCEPT ![t] = "add"]
  /\ gs' = [gs EXCEPT !.ops = @ + 1]
  /\ UNCHANGED <<prot, token, calls, store>>

AddBody(t) ==
  /\ tpc[t] = "add"
  /\ IF AtCapacity(store)
     THEN /\ tpc' = [tpc EXCEPT ![t] = IF Len(store.signatures) > 1 THEN "copy" ELSE "set"]
          /\ tloc' = [tloc EXCEPT ![t].i = 1]
          /\ UNCHANGED store
     ELSE /\ store' = [store EXCEPT !.signatures = Append(@, tloc[t].sig)]
          /\ tpc' = [tpc EXCEPT ![t] = "addUnlock"]
          /\ UNCHANGED tloc
  /\ UNCHANGED <<prot, token, calls, mu, gs>>

AddCopy(t) ==
  /\ tpc[t] = "copy"
  /\ store' = [store EXCEPT !.signatures = CopyElem(@, tloc[t].i)]
  /\ tloc' = [tloc EXCEPT ![t].i = @ + 1]
  /\ tpc' = [tpc EXCEPT ![t] =
               IF tloc[t].i + 1 > Len(store.signatures) - 1 THEN "set" ELSE "copy"]
  /\ UNCHANGED <<prot, token, calls, mu, gs>>

AddSet(t) ==
  /\ tpc[t] = "set"
  /\ store' = [store EXCEPT !.signatures = SetLast(@, tloc[t].sig)]
  /\ tpc' = [tpc EXCEPT ![t] = "addUnlock"]
  /\ gs' = [gs EXCEPT !.evictions = @ + 1]
  /\ UNCHANGED <<prot, token, calls, mu, tloc>>

AddUnlock(t) ==
  /\ tpc[t] = "addUnlock"
  /\ mu' = [mu EXCEPT !.w = FALSE]
  /\ tpc' = [tpc EXCEPT ![t] = "idle"]
  /\ gs' = [gs EXCEPT !.committed = FifoInsert(@, tloc[t].sig, store.maxSize)]
  /\ tloc' = [tloc EXCEPT ![t] = NoLocals]
  /\ UNCHANGED <<prot, token, calls, store>>

\* --- Search, store.go 67-92
SearchRLock(t) ==
  /\ tpc[t] = "idle"
  /\ gs.ops < MaxOps
  /\ RLockFree(mu)
  /\ \E sig \in StoreSigs, threshold \in StoreThresholds :
       tloc' = [tloc EXCEPT ![t] =
                  [NoLocals EXCEPT !.sig = sig, !.threshold = threshold,
                                   !.i = 1, !.n = Len(store.signatures)]]
  /\ mu' = [mu EXCEPT !.r = @ + 1]
  /\ tpc' = [tpc EXCEPT ![t] = IF Len(store.signatures) = 0 THEN "searchUnlock" ELSE "scan"]
  /\ gs' = [gs EXCEPT !.ops = @ + 1]
  /\ UNCHANGED <<prot, token, calls, store>>

SearchScan(t) ==
  /\ tpc[t] = "scan"
  /\ LET l == tloc[t]
         stored == store.signatures[l.i]
         r == SearchIter(l.best, l.sig, stored, l.threshold)
     IN /\ tloc' = [tloc EXCEPT ![t].best = r.best,
                                ![t].seen = Append(@, stored),
                                ![t].i = @ + 1]
        /\ tpc' = [tpc EXCEPT ![t] =
                     IF r.stop \/ l.i + 1 > l.n THEN "searchUnlock" ELSE "scan"]
  /\ UNCHANGED <<prot, token, calls, store, mu, gs>>

SearchRUnlock(t) ==
  /\ tpc[t] = "searchUnlock"
  /\ mu' = [mu EXCEPT !.r = @ - 1]
  /\ tpc' = [tpc EXCEPT ![t] = "idle"]
  /\ gs' = [gs EXCEPT !.hits = IF tloc[t].best # <<>> /\ @ < 1 THEN @ + 1 ELSE @]
  /\ tloc' = [tloc EXCEPT ![t] = NoLocals]
  /\ UNCHANGED <<prot, token, calls, store>>

\* --- Len, store.go 95-99
LenRLock(t) ==
  /\ tpc[t] = "idle"
  /\ gs.ops < MaxOps
  /\ RLockFree(mu)
  /\ mu' = [mu EXCEPT !.r = @ + 1]
  /\ tpc' = [tpc EXCEPT ![t] = "len"]
  /\ tloc' = [tloc EXCEPT ![t] = NoLocals]
  /\ gs' = [gs EXCEPT !.ops = @ + 1]
  /\ UNCHANGED <<prot, token, calls, store>>

LenReturn(t) ==
  /\ tpc[t] = "len"
  /\ tloc' = [tloc EXCEPT ![t].len = Len(store.signatures)]
  /\ mu' = [mu EXCEPT !.r = @ - 1]
  /\ tpc' = [tpc EXCEPT ![t] = "idle"]
  /\ UNCHANGED <<prot, token, calls, store, gs>>

NextStore ==
  \E t \in Threads :
    \/ AddLock(t) \/ AddBody(t) \/ AddCopy(t) \/ AddSet(t) \/ AddUnlock(t)
    \/ SearchRLock(t) \/ SearchScan(t) \/ SearchRUnlock(t)
    \/ LenRLock(t) \/ LenReturn(t)

SpecStore == InitStore /\ [][NextStore]_vars

\* ------------------------------------------------------------ the pipeline
Calls == 1..NumCalls
Prots == {1, 2}

tIgnoreUp == <<"I", "g", "n", "o", "r", "e", " ">>
tZero == <<"z", "z", "z">>
tHalf == <<"x", "y", "z">>

\* the texts given to Analyze
Texts == {tIgnoreUp, tIgnores, tZero, tHalf, tShort}

\* the outputs given to ValidateOutput
Outputs == {<<"o", "k">>, <<"o", "C", "a">>}

\* texts with typing errors: two keywords ("ignore", "system") behind leet
\* letters, three keywords, one keyword, and two keywords with the pattern
\* "ign" spelt out
tTypos == <<"1", "g", "n", "o", "r", " ", "s", "y", "s", "t", "m">>
tTypos3 == tTypos \o <<" ", "p", "r", "o", "m", "t">>
tOneTypo == <<"s", "y", "s", "t", "m">>
tPatternTypos == <<"i", "g", "n", "o", "r", " ", "s", "y", "s", "t", "m">>

DetectTexts == {tTypos, tTypos3, tOneTypo, tPatternTypos, tShort}

\* texts for the embedding detector: a built-in phrase in other letter case,
\* the phrase with letters missing, the caller's phrase, a text of one
\* character
tStateThat == <<"S", "t", "a", "t", "e", " ", "t", "h", "a", "t">>
tStateTha == <<"s", "t", "a", "t", "e", " ", "t", "h", "a">>
tState == <<"s", "t", "a", "t", "e">>
tOneChar == <<"x">>

EmbeddingTexts == {tStateThat, tStateTha, tState, tHalf, tOneChar}

\* short texts, one of them padded with spaces
tPadded == <<" ", "x", "y", " ">>

ShortTexts == {<<>>, tOneChar, tShort, tPadded, tHalf}

\* what the pure functions return on the model's texts, computed once
SigTable == [t \in Texts |-> GenerateSignature(t)]
HeuristicTexts == Texts \cup DetectTexts \cup ShortTexts
EncodingTable == [t \in HeuristicTexts |-> detectEncodingAttacks(t)]
FuzzyTable == [t \in HeuristicTexts |-> fuzzyMatch(t)]
VectorTable == [t \in EmbeddingTexts |-> TextToVector(t)]

SigOf(input) == IF input \in Texts THEN SigTable[input] ELSE GenerateSignature(input)
EncodingOf(input) ==
  IF input \in HeuristicTexts THEN EncodingTable[input]
  ELSE detectEncodingAttacks(input)
FuzzyOf(input) ==
  IF input \in HeuristicTexts THEN FuzzyTable[input] ELSE fuzzyMatch(input)
VectorOf(input) ==
  IF input \in EmbeddingTexts THEN VectorTable[input] ELSE TextToVector(input)

\* the guards of the model's Protectors
gMemory == MemoryNew([Threshold |-> 0, Store |-> "InMemoryStore"])
\* a memory guard on a caller's Store whose Add may return an error
gMemoryErr == MemoryNew([Threshold |-> 0, Store |-> "failing"])
heuristicOpts ==
  [Preset |-> "strict", Threshold |-> 0, HaltOnDetect |-> FALSE,
   CustomPatterns |-> << Pattern(<<"y", "z">>, "delimiter_injection", 50),
                         Pattern(<<"z", "z">>, "system_prompt_leak", 0) >>]
gHeuristic == HeuristicNew(heuristicOpts)
gHeuristicHalt == HeuristicNew([heuristicOpts EXCEPT !.HaltOnDetect = TRUE])
gCanary == CanaryNew([Length |-> 1, Prefix |-> <<"C">>])
gDetector == DetectorNew
gOutput ==
  OutputNew([ForbiddenPatterns |-> << <<"k">> >>, MaxLength |-> 0,
             ValidateJSON |-> FALSE, CustomValidator |-> <<>>])
gFuncNext == GuardFunc("profanity-filter", <<"x">>, "custom", 80, "next")
gFuncReturn == GuardFunc("blocker", <<"x">>, "custom", 80, "return")
gFuncHalt == GuardFunc("halter", <<"x">>, "custom", 40, "halt")
gUserOut == UserOutputGuard("out-blocker", <<"o", "C">>, "output_violation", 30, "return")
\* a caller's guard type whose IsOutputGuard method returns false
gUserIn ==
  [UserOutputGuard("in-filter", <<"g", "n">>, "custom", 20, "next") EXCEPT !.output = FALSE]

\* the guards handed to New for the pairs of Protectors a behaviour of Spec
\* may start with
ScenarioGuards ==
  { << <<gMemory, gHeuristic>>, <<gMemory>> >>,
    << <<gHeuristic, gMemory>>, <<gMemory>> >>,
    << <<gMemory, gHeuristicHalt, gFuncNext>>, <<gFuncHalt, gMemory, gHeuristic>> >>,
    << <<gHeuristicHalt, gCanary, gUserOut, gDetector, gUserIn, gOutput>>,
       <<gFuncReturn, gMemory, gMemory, gHeuristic>> >> }

Scenarios == { <<New(sg[1]), New(sg[2])>> : sg \in ScenarioGuards }

NoResult == <<>>

IdleCall ==
  [pc |-> "idle", p |-> 1, phase |-> "input", text |-> <<>>, meta |-> <<>>,
   ctx |-> NewContext(<<>>), idx |-> 0, frames |-> <<>>, result |-> NoResult,
   ran |-> <<>>, origin |-> <<>>, cut |-> <<>>, mlog |-> <<>>, slog |-> <<>>,
   elog |-> <<>>]

GuardList(cr) ==
  IF cr.phase = "input" THEN prot[cr.p].guards ELSE prot[cr.p].outputGuards

Cur(cr) == GuardList(cr)[cr.idx]

\* a guard is entered when runGuards reaches it
Entering(c, kinds) ==
  /\ calls[c].pc = "enter"
  /\ ~RunGuardsStops(calls[c].ctx, GuardList(calls[c]), calls[c].idx)
  /\ Cur(calls[c]).kind \in kinds

\* The call after the guard at idx has turned its Context into ctx2 and has
\* called next (callsNext) or returned. ran, origin and cut are history: the
\* guards run, the guard that raised each threat, and where the chain was
\* first cut short (a return without next, or the halt flag) with the threats
\* recorded until then.
AfterGuard(cr, ctx2, callsNext) ==
  [cr EXCEPT
     !.ctx = ctx2,
     !.ran = IF cr.pc = "enter" THEN Append(@, cr.idx) ELSE @,
     !.origin = @ \o [j \in 1..(Len(ctx2.Threats) - Len(cr.ctx.Threats)) |-> cr.idx],
     !.cut = IF @ = <<>> /\ (ctx2.Halted \/ ~callsNext)
             THEN <<[idx |-> cr.idx, threats |-> ctx2.Threats]>> ELSE @,
     !.idx = IF callsNext THEN NextIdx(@) ELSE @,
     !.pc = IF callsNext THEN "enter" ELSE "unwind"]

\* a guard has panicked: the run-time error unwinds the whole call, which
\* returns no Result
Panicked(cr) == [cr EXCEPT !.pc = "panicked", !.ran = Append(@, cr.idx)]

InitCalls ==
  /\ prot \in Scenarios
  /\ token = [p \in Prots |-> <<>>]
  /\ calls = [c \in Calls |-> IdleCall]

Init ==
  /\ InitCalls
  /\ store = NewInMemoryStore(MaxSize)
  /\ mu = [w |-> FALSE, r |-> 0]
  /\ tpc = <<>>
  /\ tloc = <<>>
  /\ gs = <<>>

storeVars == <<mu, tpc, tloc, gs>>

\* in Spec the caller makes one call after the other
MayStart(c) ==
  /\ calls[c].pc = "idle"
  /\ IF c = 1 THEN TRUE ELSE calls[c - 1].pc = "done"

StartAnalyze(c, p, text) ==
  calls' = [calls EXCEPT ![c] =
              [IdleCall EXCEPT !.pc = "enter", !.p = p, !.phase = "input",
                               !.text = text, !.ctx = NewContext(text), !.idx = 1]]

\* Protector.Analyze up to the call of runGuards
Analyze(c) ==
  /\ MayStart(c)
  /\ \E p \in Prots, text \in Texts : StartAnalyze(c, p, text)
  /\ UNCHANGED <<prot, token, store, storeVars>>

\* the metadata a caller hands to ValidateOutput: none, or a Result's
Metadatas == {<<>>} \cup {calls[d].result[1].Metadata :
                            d \in {x \in Calls : calls[x].pc = "done"}}

StartValidateOutput(c, p, output, metadata) ==
  calls' = [calls EXCEPT ![c] =
              [IdleCall EXCEPT !.pc = "enter", !.p = p, !.phase = "output",
                               !.text = output, !.meta = metadata, !.idx = 1,
                               !.ctx = [NewContext(output) EXCEPT
                                          !.Metadata = metadata]]]

\* Protector.ValidateOutput up to the call of runGuards
ValidateOutput(c) ==
  /\ MayStart(c)
  /\ \E p \in Prots, output \in Outputs, metadata \in Metadatas :
       /\ prot[p].outputGuards # <<>>
       /\ StartValidateOutput(c, p, output, metadata)
  /\ UNCHANGED <<prot, token, store, storeVars>>

\* runGuards returns at once: the list is exhausted or the Context is halted
RunGuardsReturn(c) ==
  /\ calls[c].pc = "enter"
  /\ RunGuardsStops(calls[c].ctx, GuardList(calls[c]), calls[c].idx)
  /\ calls' = [calls EXCEPT ![c].pc = "unwind"]
  /\ UNCHANGED <<prot, token, store, storeVars>>

\* memory Guard.Execute, lines 83-115: search, raise the match, call next
MemoryThreatType(sig) == IF sig.ThreatType = "" THEN "custom" ELSE sig.ThreatType

MemoryExecutePre(c) ==
  /\ Entering(c, {"memory"})
  /\ LET cr == calls[c]
         g == Cur(cr)
         sig == SigOf(cr.ctx.Input)
         found == Search(store, sig, g.Threshold)
         ctx1 ==
           IF found # <<>>
           THEN SetMeta(SetMeta(AddThreat(cr.ctx,
                    Threat(MemoryThreatType(found[1].Signature),
                           found[1].Signature.Severity, "memory",
                           0, Len(cr.ctx.Input))),
                  "memory.matched", TRUE), "memory.similarity", found[1].Similarity)
           ELSE cr.ctx
         threatsBefore == Len(ctx1.Threats)
         frame == [idx |-> cr.idx, sig |-> sig, threatsBefore |-> threatsBefore]
         entry == [idx |-> cr.idx, sigs |-> store.signatures, query |-> sig,
                   threshold |-> g.Threshold, at |-> Len(cr.ctx.Threats),
                   raised |-> SubSeq(ctx1.Threats, Len(cr.ctx.Threats) + 1,
                                     Len(ctx1.Threats)),
                   meta |-> ctx1.Metadata]
     IN calls' = [calls EXCEPT ![c] =
                    [AfterGuard(cr, ctx1, ~ctx1.Halted) EXCEPT
                       !.frames = Append(@, frame),
                       !.slog = Append(@, entry)]]
  /\ UNCHANGED <<prot, token, store, storeVars>>

\* memory Guard.Execute, lines 118-137: learn from the threats raised since
\* the snapshot
MemoryExecutePost(c) ==
  /\ calls[c].pc = "unwind"
  /\ calls[c].frames # <<>>
  /\ LET cr == calls[c]
         f == cr.frames[Len(cr.frames)]
         learn == HasNewThreats(cr.ctx, f.threatsBefore)
         best == BestOf(SubSeq(cr.ctx.Threats, f.threatsBefore + 1, Len(cr.ctx.Threats)),
                        "", 0)
         sig == [f.sig EXCEPT !.ThreatType = best.Type, !.Severity = best.Severity]
     IN \E err \in StoreAddErrors(GuardList(cr)[f.idx].Store) :
          LET stored == learn /\ ~err
              ctx2 == IF learn THEN AfterAdd(cr.ctx, err) ELSE cr.ctx
              entry == [idx |-> f.idx, added |-> learn, sig |-> sig,
                        err |-> learn /\ err,
                        before |-> cr.ctx, ctx |-> ctx2,
                        had |-> store.signatures,
                        after |-> IF stored THEN Add(store, sig).signatures
                                  ELSE store.signatures]
          IN /\ store' = IF stored THEN Add(store, sig) ELSE store
             /\ calls' = [calls EXCEPT ![c] =
                            [cr EXCEPT !.ctx = ctx2,
                                       !.pc = "memlen",
                                       !.mlog = Append(@, entry)]]
  /\ UNCHANGED <<prot, token, storeVars>>

\* memory Guard.Execute, line 140, and its return
MemoryExecuteLen(c) ==
  /\ calls[c].pc = "memlen"
  /\ calls' = [calls EXCEPT ![c] =
                 [@ EXCEPT !.ctx = SetMeta(@, "memory.signatures", StoreLen(store)),
                           !.frames = SubSeq(@, 1, Len(@) - 1),
                           !.pc = "unwind"]]
  /\ UNCHANGED <<prot, token, store, storeVars>>

\* heuristic Guard.Execute
HeuristicExecute(c) ==
  /\ Entering(c, {"heuristic"})
  /\ LET cr == calls[c]
         g == Cur(cr)
         input == cr.ctx.Input
         r1 == HeuristicPatterns(g, input,
                 [ctx |-> cr.ctx, detected |-> FALSE, returned |-> FALSE], 1)
         r2 == HeuristicEncoding(g, r1, EncodingOf(input))
         r3 == HeuristicFuzzy(g, r2, FuzzyOf(input))
         ctx2 == IF r3.detected /\ ~r3.returned
                 THEN SetMeta(r3.ctx, "heuristic.detected", TRUE) ELSE r3.ctx
     IN calls' = [calls EXCEPT ![c] =
                    AfterGuard(cr, ctx2, ~r3.returned /\ ~ctx2.Halted)]
  /\ UNCHANGED <<prot, token, store, storeVars>>

\* canary Guard.Execute, line 81: the token is drawn and written to the guard
CanaryGenerate(c) ==
  /\ Entering(c, {"canary"})
  /\ \E tok \in generateToken(Cur(calls[c]).opts) :
       token' = [token EXCEPT ![calls[c].p] = tok]
  /\ calls' = [calls EXCEPT ![c] = [@ EXCEPT !.pc = "canaryInject",
                                             !.ran = Append(@, calls[c].idx)]]
  /\ UNCHANGED <<prot, store, storeVars>>

\* canary Guard.Execute, line 83: the guard's token is read and appended
CanaryInject(c) ==
  /\ calls[c].pc = "canaryInject"
  /\ calls' = [calls EXCEPT ![c] =
                 [@ EXCEPT !.ctx.Input = injectToken(@, token[calls[c].p]),
                           !.pc = "canaryMeta"]]
  /\ UNCHANGED <<prot, token, store, storeVars>>

\* canary Guard.Execute, lines 84-86: the guard's token is read again and
\* put in the metadata; next is called
CanarySetMeta(c) ==
  /\ calls[c].pc = "canaryMeta"
  /\ calls' = [calls EXCEPT ![c] =
                 AfterGuard(calls[c],
                            SetMeta(calls[c].ctx, metaKeyToken, token[calls[c].p]), TRUE)]
  /\ UNCHANGED <<prot, token, store, storeVars>>

\* embedding Guard.Execute
EmbeddingExecute(c) ==
  /\ Entering(c, {"embedding"})
  /\ LET cr == calls[c]
         g == Cur(cr)
         inputVec == VectorOf(cr.ctx.Input)
         r == EmbeddingLoop(g, cr.ctx, inputVec, <<>>, 1)
         ctx2 == SetMeta(r.ctx, "embedding_scores", r.scores)
         \* history: the input's vector and the Context before and after
         entry == [idx |-> cr.idx, inputVec |-> inputVec, before |-> cr.ctx, ctx |-> ctx2]
     IN calls' = [calls EXCEPT ![c] =
                    [AfterGuard(cr, ctx2, ~ctx2.Halted) EXCEPT !.elog = Append(@, entry)]]
  /\ UNCHANGED <<prot, token, store, storeVars>>

\* a caller's guard (GuardFunc, or a type of the caller's)
FuncExecute(c) ==
  /\ Entering(c, {"func", "user"})
  /\ LET cr == calls[c]
         g == Cur(cr)
         hit == Contains(cr.ctx.Input, g.lit)
         ctx1 == IF hit
                 THEN AddThreat(cr.ctx, Threat(g.threatType, g.severity, g.name, 0, 0))
                 ELSE cr.ctx
         ctx2 == IF hit /\ g.then = "halt" THEN Halt(ctx1) ELSE ctx1
     IN calls' = [calls EXCEPT ![c] = AfterGuard(cr, ctx2, ~(hit /\ g.then = "return"))]
  /\ UNCHANGED <<prot, token, store, storeVars>>

\* canary DetectorGuard.Execute
DetectorExecute(c) ==
  /\ Entering(c, {"canary-detector"})
  /\ LET cr == calls[c]
         output == cr.ctx.Input
         t == DetectorToken(cr.ctx)
         leak == detectLeak(output, t.token)
         ctx1 == IF t.ok /\ leak.matched
                 THEN AddThreat(cr.ctx, Threat("canary_leak", 100, "canary-detector",
                                               leak.start, leak.end))
                 ELSE cr.ctx
     IN calls' = [calls EXCEPT ![c] =
                    IF DetectorPanics(cr.ctx, output) THEN Panicked(cr)
                    ELSE AfterGuard(cr, ctx1, TRUE)]
  /\ UNCHANGED <<prot, token, store, storeVars>>

\* output Guard.Execute
OutputExecute(c) ==
  /\ Entering(c, {"output"})
  /\ LET cr == calls[c]
         g == Cur(cr)
         output == cr.ctx.Input
         c1 == checkCanary(cr.ctx, output)
         c2 == checkSystemPromptLeaks(c1, output)
         c3 == checkForbiddenPatterns(g, c2, output)
         c4 == checkMaxLength(g, c3, output)
         c5 == checkJSON(g, c4, output)
         c6 == checkCustom(g, c5, output)
     IN calls' = [calls EXCEPT ![c] =
                    IF checkCanaryPanics(cr.ctx, output) THEN Panicked(cr)
                    ELSE AfterGuard(cr, c6, TRUE)]
  /\ UNCHANGED <<prot, token, store, storeVars>>

\* the outermost runGuards has returned: buildResult
BuildResult(c) ==
  /\ calls[c].pc = "unwind"
  /\ calls[c].frames = <<>>
  /\ calls' = [calls EXCEPT ![c] =
                 [@ EXCEPT !.result = <<buildResult(prot[calls[c].p], calls[c].ctx)>>,
                           !.pc = "done"]]
  /\ UNCHANGED <<prot, token, store, storeVars>>

Next ==
  \E c \in Calls :
    \/ Analyze(c) \/ ValidateOutput(c) \/ RunGuardsReturn(c)
    \/ MemoryExecutePre(c) \/ MemoryExecutePost(c) \/ MemoryExecuteLen(c)
    \/ HeuristicExecute(c)
    \/ CanaryGenerate(c) \/ CanaryInject(c) \/ CanarySetMeta(c)
    \/ FuncExecute(c) \/ DetectorExecute(c) \/ OutputExecute(c)
    \/ BuildResult(c)

Spec == Init /\ [][Next]_vars

\* --- concurrent callers of one Protector
ConcCalls == 1..NumConc
ConcTexts == {tIgnoreUp, tShort}

InitConc ==
  /\ prot = [p \in Prots |-> New(<<gMemory, gHeuristic, gCanary>>)]
  /\ token = [p \in Prots |-> <<>>]
  /\ calls = [c \in Calls |-> IdleCall]
  /\ store = NewInMemoryStore(MaxSize)
  /\ mu = [w |-> FALSE, r |-> 0]
  /\ tpc = <<>>
  /\ tloc = <<>>
  /\ gs = <<>>

\* Analyze called by a goroutine of its own, on the first Protector; the
\* goroutines take their numbers in the order in which they start
AnalyzeConcurrent(c) ==
  /\ calls[c].pc = "idle"
  /\ IF c = 1 THEN TRUE ELSE calls[c - 1].pc # "idle"
  /\ \E text \in ConcTexts : StartAnalyze(c, 1, text)
  /\ UNCHANGED <<prot, token, store, storeVars>>

NextConc ==
  \E c \in ConcCalls :
    \/ AnalyzeConcurrent(c) \/ RunGuardsReturn(c)
    \/ MemoryExecutePre(c) \/ MemoryExecutePost(c) \/ MemoryExecuteLen(c)
    \/ HeuristicExecute(c)
    \/ CanaryGenerate(c) \/ CanaryInject(c) \/ CanarySetMeta(c)
    \/ BuildResult(c)

SpecConc == InitConc /\ [][NextConc]_vars

\* --- a Protector whose memory guard uses a caller's Store
AddErrTexts == {tIgnoreUp, tHalf, tShort}

InitAddErr ==
  /\ prot = [p \in Prots |-> New(<<gMemoryErr, gHeuristic>>)]
  /\ token = [p \in Prots |-> <<>>]
  /\ calls = [c \in Calls |-> IdleCall]
  /\ store = NewInMemoryStore(MaxSize)
  /\ mu = [w |-> FALSE, r |-> 0]
  /\ tpc = <<>>
  /\ tloc = <<>>
  /\ gs = <<>>

AnalyzeAddErr(c) ==
  /\ MayStart(c)
  /\ \E text \in AddErrTexts : StartAnalyze(c, 1, text)
  /\ UNCHANGED <<prot, token, store, storeVars>>

NextAddErr ==
  \E c \in Calls :
    \/ AnalyzeAddErr(c) \/ RunGuardsReturn(c)
    \/ MemoryExecutePre(c) \/ MemoryExecutePost(c) \/ MemoryExecuteLen(c)
    \/ HeuristicExecute(c)
    \/ BuildResult(c)

SpecAddErr == InitAddErr /\ [][NextAddErr]_vars

\* --- the canary workflow: a Protector with the injector and the output
\* validator, and one with the detector followed by a caller's output guard
CanaryCalls == 1..NumCanaryCalls

\* a token as the tests of the detector put in the metadata
tokLong == <<"C", "A", "N", "A", "R", "Y", "_", "a", "b", "c">>

OnlyToken(v) == [k \in {metaKeyToken} |-> v]

\* the metadata maps a caller makes for the detector: no key, an empty
\* string, a value that is not a string, a token
CallerMetadatas == {<<>>, OnlyToken(<<>>), OnlyToken(NotAString), OnlyToken(tokLong)}

\* the outputs given to the detector: the token as it is, in other letter
\* case, with noise characters inserted, all but its first byte, in other
\* letter case behind a character outside ASCII, and not at all
DetectorOutputs ==
  { <<"x">> \o tokLong,
    <<"x">> \o <<"c", "a", "n", "a", "r", "y", "_", "A", "B", "C">>,
    <<"x">> \o <<"C", "A", "N", "-", "A", "R", "Y", "_", "a", " ", "b", "_", "c">>,
    <<"x">> \o Tail(tokLong),
    UpperAStroke \o <<"c", "a", "n", "a", "r", "y", "_", "A", "B", "C">>,
    <<"o", "h">> }

\* the outputs given to the validator for a token tok: with the token, with
\* the token behind a character outside ASCII, and without it (the second
\* with a forbidden pattern)
ValidatorOutputs(tok) ==
  { <<"o">> \o tok, UpperAStroke \o tok, <<"o", "h">>, <<"o", "k">> }

InitCanary ==
  /\ prot = <<New(<<gCanary, gOutput>>), New(<<gDetector, gUserOut>>)>>
  /\ token = [p \in Prots |-> <<>>]
  /\ calls = [c \in Calls |-> IdleCall]
  /\ store = NewInMemoryStore(MaxSize)
  /\ mu = [w |-> FALSE, r |-> 0]
  /\ tpc = <<>>
  /\ tloc = <<>>
  /\ gs = <<>>

AnalyzeCanary(c) ==
  /\ MayStart(c)
  /\ StartAnalyze(c, 1, tShort)
  /\ UNCHANGED <<prot, token, store, storeVars>>

\* ValidateOutput with the metadata of an earlier Analyze of the Protector
ValidateOutputInjected(c) ==
  /\ MayStart(c)
  /\ \E d \in 1..(c - 1) :
       /\ calls[d].p = 1 /\ calls[d].phase = "input"
       /\ \E output \in ValidatorOutputs(calls[d].result[1].Metadata[metaKeyToken]) :
            StartValidateOutput(c, 1, output, calls[d].result[1].Metadata)
  /\ UNCHANGED <<prot, token, store, storeVars>>

\* ValidateOutput on the detector with a map of the caller's
ValidateOutputDetector(c) ==
  /\ MayStart(c)
  /\ \E output \in DetectorOutputs, metadata \in CallerMetadatas :
       StartValidateOutput(c, 2, output, metadata)
  /\ UNCHANGED <<prot, token, store, storeVars>>

NextCanary ==
  \E c \in CanaryCalls :
    \/ AnalyzeCanary(c) \/ ValidateOutputInjected(c) \/ ValidateOutputDetector(c)
    \/ RunGuardsReturn(c)
    \/ CanaryGenerate(c) \/ CanaryInject(c) \/ CanarySetMeta(c)
    \/ FuncExecute(c) \/ DetectorExecute(c) \/ OutputExecute(c)
    \/ BuildResult(c)

SpecCanary == InitCanary /\ [][NextCanary]_vars

\* --- single detectors: Protectors of one detector each
DetectCalls == 1..NumDetectCalls

\* a caller's vectors: the vector of a text without a threat type, and a
\* vector of another length
customVectors ==
  << Vector("mine", TextToVector(tHalf), ""),
     Vector("short", [len |-> 3, vals |-> (0 :> 1 @@ 1 :> 2), scale2 |-> 1],
            "custom") >>

gEmbedding == EmbeddingNew([Threshold |-> 0, CustomVectors |-> <<>>])
gEmbeddingCustom == EmbeddingNew([Threshold |-> 100, CustomVectors |-> customVectors])

DetectScenarios ==
  { <<New(<<gHeuristic>>), New(<<gHeuristicHalt>>)>>,
    <<New(<<gEmbedding>>), New(<<gEmbeddingCustom>>)>> }

InitDetect ==
  /\ prot \in DetectScenarios
  /\ token = [p \in Prots |-> <<>>]
  /\ calls = [c \in Calls |-> IdleCall]
  /\ store = NewInMemoryStore(MaxSize)
  /\ mu = [w |-> FALSE, r |-> 0]
  /\ tpc = <<>>
  /\ tloc = <<>>
  /\ gs = <<>>

AnalyzeDetect(c) ==
  /\ MayStart(c)
  /\ \E p \in Prots :
       \E text \in IF prot[p].guards[1].kind = "embedding"
                   THEN EmbeddingTexts ELSE DetectTexts :
         StartAnalyze(c, p, text)
  /\ UNCHANGED <<prot, token, store, storeVars>>

NextDetect ==
  \E c \in DetectCalls :
    \/ AnalyzeDetect(c) \/ RunGuardsReturn(c)
    \/ HeuristicExecute(c) \/ EmbeddingExecute(c)
    \/ BuildResult(c)

SpecDetect == InitDetect /\ [][NextDetect]_vars

\* ------------------------------------------------- comparing signatures
\* GenerateSignature and Similarity applied to two inputs. An input is a text
\* of at most MaxTextLen characters over letters of both cases and the space,
\* or a Signature built by the caller (its fields are exported).
SigAlphabet == {"a", "B", " "}

SigTexts == UNION {[1..n -> SigAlphabet] : n \in 0..MaxTextLen}

\* Signatures a caller can build: no trigrams, a trigram counted zero times,
\* the trigrams of "aba" counted as in "abab" and in "ababa"
HandSignatures ==
  { [NGrams |-> <<>>, Length |-> 0, ThreatType |-> "", Severity |-> 0],
    [NGrams |-> (<<"a", "b", "a">> :> 0), Length |-> 3, ThreatType |-> "",
     Severity |-> 0],
    [NGrams |-> (<<"a", "b", "a">> :> 1 @@ <<"b", "a", "b">> :> 1), Length |-> 4,
     ThreatType |-> "", Severity |-> 0],
    [NGrams |-> (<<"a", "b", "a">> :> 2 @@ <<"b", "a", "b">> :> 1), Length |-> 5,
     ThreatType |-> "custom", Severity |-> 90] }

SigInputs ==
  {[isText |-> TRUE, text |-> t] : t \in SigTexts}
    \cup {[isText |-> FALSE, sig |-> h] : h \in HandSignatures}

SignatureOf(in) == IF in.isText THEN GenerateSignature(in.text) ELSE in.sig

InitSig ==
  /\ prot = <<>>
  /\ token = <<>>
  /\ calls = <<>>
  /\ store = NewInMemoryStore(MaxSize)
  /\ mu = [w |-> FALSE, r |-> 0]
  /\ tpc = <<>>
  /\ tloc = <<>>
  /\ \E in1 \in SigInputs, in2 \in SigInputs :
       gs = [pc |-> "inputs", in |-> <<in1, in2>>, sigs |-> <<>>, sim |-> <<>>,
             rev |-> <<>>]

\* a := GenerateSignature(T1); b := GenerateSignature(T2)
SigGenerate ==
  /\ gs.pc = "inputs"
  /\ gs' = [gs EXCEPT !.pc = "signatures",
                       !.sigs = <<SignatureOf(gs.in[1]), SignatureOf(gs.in[2])>>]
  /\ UNCHANGED <<prot, token, calls, store, mu, tpc, tloc>>

\* a.Similarity(b) and b.Similarity(a)
SigCompare ==
  /\ gs.pc = "signatures"
  /\ gs' = [gs EXCEPT !.pc = "compared",
                       !.sim = Similarity(gs.sigs[1], gs.sigs[2]),
                       !.rev = Similarity(gs.sigs[2], gs.sigs[1])]
  /\ UNCHANGED <<prot, token, calls, store, mu, tpc, tloc>>

NextSig == SigGenerate \/ SigCompare

SpecSig == InitSig /\ [][NextSig]_vars

\* --- short texts: a Protector whose memory guard, at the default threshold,
\* is followed by a caller's guard that flags "x", and one whose memory
\* guard, at threshold 1.0, is followed by a heuristic guard that halts and
\* by the caller's guard
gMemoryExact == MemoryNew([Threshold |-> 100, Store |-> "InMemoryStore"])

InitShort ==
  /\ prot = <<New(<<gMemory, gFuncNext>>),
              New(<<gMemoryExact, gHeuristicHalt, gFuncNext>>)>>
  /\ token = [p \in Prots |-> <<>>]
  /\ calls = [c \in Calls |-> IdleCall]
  /\ store = NewInMemoryStore(MaxSize)
  /\ mu = [w |-> FALSE, r |-> 0]
  /\ tpc = <<>>
  /\ tloc = <<>>
  /\ gs = <<>>

AnalyzeShort(c) ==
  /\ MayStart(c)
  /\ \E p \in Prots, text \in ShortTexts : StartAnalyze(c, p, text)
  /\ UNCHANGED <<prot, token, store, storeVars>>

NextShort ==
  \E c \in Calls :
    \/ AnalyzeShort(c) \/ RunGuardsReturn(c)
    \/ MemoryExecutePre(c) \/ MemoryExecutePost(c) \/ MemoryExecuteLen(c)
    \/ HeuristicExecute(c) \/ FuncExecute(c)
    \/ BuildResult(c)

SpecShort == InitShort /\ [][NextShort]_vars

\* ------------------------------------------------------------ claims
\* C3: after any interleaving of Add, Search and Len by concurrent callers on
\* a store created with capacity N, the store holds at most N signatures.
C3_SizeWithinCapacity == Len(store.signatures) <= store.maxSize

C3_Witness ==
  /\ gs.evictions >= 1
  /\ Len(store.signatures) = store.maxSize
  /\ \E t \in Threads : tpc[t] = "addUnlock"

\* C4: an Add on a full store removes exactly the earliest inserted signature,
\* keeps the others in insertion order and puts the new one last, and Search
\* hits in between do not change the order: whenever no Add is in progress the
\* slice equals the insertion-ordered FIFO contents.
C4_FifoEviction == ~mu.w => store.signatures = gs.committed

C4_Witness ==
  /\ ~mu.w
  /\ gs.evictions >= 1
  /\ gs.hits >= 1
  /\ Len(store.signatures) = store.maxSize

\* C5: a Search or a Len that holds the read lock sees the contents as they
\* are between two Adds (never a partly shifted slice), and what a Search has
\* read so far is a prefix of those contents.
C5_NoTornRead ==
  \A t \in Threads :
    /\ tpc[t] \in {"scan", "searchUnlock", "len"} => store.signatures = gs.committed
    /\ tpc[t] \in {"scan", "searchUnlock"} => IsPrefix(tloc[t].seen, gs.committed)

C5_Witness ==
  /\ gs.evictions >= 1
  /\ \E t \in Threads : tpc[t] = "searchUnlock" /\ Len(tloc[t].seen) = store.maxSize
  /\ \E t \in Threads : tpc[t] = "idle" /\ tloc[t].len = store.maxSize

\* the similarities of the signatures of SpecStore, computed once
StoreSimilarity == [a \in StoreSigs |-> [b \in StoreSigs |-> Similarity(a, b)]]

\* C11: a Search reports a match exactly when a stored signature reaches the
\* threshold, and the signature it returns has the highest similarity to the
\* query among all stored signatures.
C11_SearchBest ==
  \A t \in Threads :
    tpc[t] = "searchUnlock" =>
      LET l == tloc[t]
          sigs == store.signatures
          sim(k) == StoreSimilarity[l.sig][sigs[k]]
          qual == {k \in 1..Len(sigs) : sim(k)[1] * 100 >= l.threshold * sim(k)[2]}
      IN /\ l.best # <<>> <=> qual # {}
         /\ l.best # <<>> =>
              \E k \in qual :
                /\ l.best[1].Signature = sigs[k]
                /\ l.best[1].Similarity = sim(k)
                /\ \A m \in 1..Len(sigs) : sim(m)[1] * sim(k)[2] <= sim(k)[1] * sim(m)[2]

C11_Witness ==
  /\ \E t \in Threads :
       /\ tpc[t] = "searchUnlock"
       /\ Len(store.signatures) = 2
       /\ tloc[t].best # <<>>
       /\ tloc[t].best[1].Signature = store.signatures[2]
       /\ ~SimBelow(Similarity(tloc[t].sig, store.signatures[1]), tloc[t].threshold)
  /\ \E t \in Threads :
       /\ tpc[t] = "searchUnlock"
       /\ Len(tloc[t].seen) = 2
       /\ tloc[t].best = <<>>

\* two signatures made from the same text
SameText(a, b) == a.NGrams = b.NGrams /\ a.Length = b.Length

\* C12: a Search for the text of the signature added last, with a threshold
\* of at most 1.0, reports a match of similarity 1.0, also after an eviction.
C12_NewestSearchable ==
  \A t \in Threads :
    (/\ tpc[t] = "searchUnlock"
     /\ gs.committed # <<>>
     /\ tloc[t].threshold <= 100
     /\ SameText(tloc[t].sig, gs.committed[Len(gs.committed)]))
    => /\ tloc[t].best # <<>>
       /\ tloc[t].best[1].Similarity[1] = tloc[t].best[1].Similarity[2]

C12_Witness ==
  /\ gs.evictions >= 1
  /\ \E t \in Threads :
       /\ tpc[t] = "searchUnlock"
       /\ tloc[t].threshold = 100
       /\ Len(tloc[t].seen) = store.maxSize
       /\ SameText(tloc[t].sig, gs.committed[Len(gs.committed)])
       /\ tloc[t].best # <<>>

\* ---- history helpers
Done(c) == calls[c].pc = "done"
ResultOf(c) == calls[c].result[1]
Kinds(guards) == [n \in 1..Len(guards) |-> guards[n].kind]
\* a guard of the given kind has run in call c
RanKind(c, kind) ==
  \E n \in 1..Len(calls[c].ran) : GuardList(calls[c])[calls[c].ran[n]].kind = kind
\* the threats of call c that guards after position idx have raised
RaisedAfter(c, idx) == {j \in 1..Len(calls[c].origin) : calls[c].origin[j] > idx}
RaisedBy(ts, guard) == {n \in 1..Len(ts) : ts[n].Guard = guard}
MaxSeverity(ts) ==
  IF ts = <<>> THEN 0
  ELSE CHOOSE v \in {ts[n].Severity : n \in 1..Len(ts)} :
         \A n \in 1..Len(ts) : ts[n].Severity <= v

\* C1: once a guard has returned without calling next, or the halt flag is
\* set, no guard later in the list runs in that call, and the threats recorded
\* until then are in the returned Result.
C1_EarlyStop ==
  \A c \in Calls :
    calls[c].cut # <<>> =>
      /\ \A n \in 1..Len(calls[c].ran) : calls[c].ran[n] <= calls[c].cut[1].idx
      /\ Done(c) => IsPrefix(calls[c].cut[1].threats, ResultOf(c).Threats)

C1_Witness ==
  /\ \E c \in Calls :
       /\ Done(c) /\ calls[c].phase = "input"
       /\ calls[c].ctx.Halted
       /\ calls[c].cut[1].idx < Len(GuardList(calls[c]))
       /\ calls[c].cut[1].threats # <<>>
  /\ \E c \in Calls :
       /\ Done(c) /\ calls[c].phase = "output"
       /\ ~calls[c].ctx.Halted
       /\ calls[c].cut # <<>>
       /\ calls[c].cut[1].idx < Len(GuardList(calls[c]))

\* C2: a Result is unsafe exactly when one of its threats has severity 0.5 or
\* more.
C2_Verdict ==
  \A c \in Calls :
    Done(c) =>
      (ResultOf(c).Safe <=>
         \A n \in 1..Len(ResultOf(c).Threats) : ResultOf(c).Threats[n].Severity < 50)

C2_Witness ==
  /\ \E c \in Calls :
       Done(c) /\ ResultOf(c).Safe /\ ResultOf(c).Threats # <<>>
  /\ \E c \in Calls :
       Done(c) /\ ~ResultOf(c).Safe /\ MaxSeverity(ResultOf(c).Threats) = 50
  /\ \E c \in Calls :
       Done(c) /\ ResultOf(c).Safe /\ ResultOf(c).Threats = <<>>

\* C6: each Analyze call's Result carries in its metadata the canary token
\* that was appended to that call's own text.
C6_TokenOfTheCall ==
  \A c \in Calls :
    (Done(c) /\ calls[c].phase = "input" /\ RanKind(c, "canary")) =>
      /\ metaKeyToken \in DOMAIN ResultOf(c).Metadata
      /\ ResultOf(c).Output = injectToken(calls[c].text, ResultOf(c).Metadata[metaKeyToken])

\* C7: the memory guard adds the input's signature to the store in a call
\* exactly when a guard after it has raised a threat in that call; its own
\* match threat does not count.
C7_StoresIffNewThreat ==
  \A c \in Calls :
    \A n \in 1..Len(calls[c].mlog) :
      LET e == calls[c].mlog[n]
      IN /\ e.added <=> RaisedAfter(c, e.idx) # {}
         /\ e.added => e.after[Len(e.after)] = e.sig

C7_Witness ==
  /\ \E c \in Calls :
       /\ Done(c)
       /\ Len(calls[c].mlog) = 1
       /\ calls[c].mlog[1].added
       /\ RaisedBy(calls[c].ctx.Threats, "memory") # {}
  /\ \E c \in Calls :
       /\ Done(c)
       /\ Len(calls[c].ctx.Threats) = 1
       /\ calls[c].ctx.Threats[1].Guard = "memory"
       /\ Len(calls[c].mlog) = 1
       /\ ~calls[c].mlog[1].added

\* the similarities of the signatures of the texts of Spec, computed once
\* (Similarity reads the trigram counts only)
TextNGrams == {SigTable[t].NGrams : t \in Texts}
TextSimilarity ==
  [a \in TextNGrams |-> [b \in TextNGrams |->
     Similarity([NGrams |-> a], [NGrams |-> b])]]
SimilarityOf(s, other) ==
  IF s.NGrams \in TextNGrams /\ other.NGrams \in TextNGrams
  THEN TextSimilarity[s.NGrams][other.NGrams]
  ELSE Similarity(s, other)

\* C8: when the store holds a signature whose similarity to the input's
\* signature reaches the threshold, the memory guard raises one threat of its
\* own before any later guard raises one, with the type and the severity of a
\* stored signature of the highest similarity, and records that similarity.
C8_MemoryMatch ==
  \A c \in Calls :
    \A n \in 1..Len(calls[c].slog) :
      LET e == calls[c].slog[n]
          sim(k) == SimilarityOf(e.query, e.sigs[k])
          qual == {k \in 1..Len(e.sigs) : ~SimBelow(sim(k), e.threshold)}
      IN qual # {} =>
           /\ Len(e.raised) = 1
           /\ e.raised[1].Guard = "memory"
           /\ \E k \in qual :
                /\ \A m \in qual : ~SimLess(sim(k), sim(m))
                /\ e.raised[1].Type = e.sigs[k].ThreatType
                /\ e.raised[1].Severity = e.sigs[k].Severity
                /\ e.meta["memory.similarity"] = sim(k)
           /\ \A j \in RaisedAfter(c, e.idx) : j > e.at + 1

C8_Witness ==
  \E c \in Calls :
    /\ Done(c)
    /\ Len(calls[c].slog) = 1
    /\ LET e == calls[c].slog[1]
       IN /\ Len(e.sigs) = 2
          /\ ~SimBelow(Similarity(e.query, e.sigs[1]), e.threshold)
          /\ SimLess(Similarity(e.query, e.sigs[1]), Similarity(e.query, e.sigs[2]))
          /\ e.sigs[1].ThreatType # e.sigs[2].ThreatType
          /\ RaisedAfter(c, e.idx) # {}

\* C9: with a heuristic and a memory guard in the chain, in either order, a
\* second Analyze of a text the heuristic guard has flagged in the call before
\* raises a memory-match threat, also on a Protector that holds only the
\* memory guard with the same store.
C9_SelfHardening ==
  \A c \in Calls :
    IF c = NumCalls THEN TRUE
    ELSE LET a == calls[c]
             b == calls[c + 1]
         IN (/\ Done(c) /\ Done(c + 1)
             /\ a.phase = "input" /\ b.phase = "input"
             /\ a.text = b.text
             /\ Kinds(prot[a.p].guards) \in {<<"memory", "heuristic">>,
                                              <<"heuristic", "memory">>}
             /\ (b.p = a.p \/ Kinds(prot[b.p].guards) = <<"memory">>)
             /\ RaisedBy(a.ctx.Threats, "heuristic") # {})
            => RaisedBy(ResultOf(c + 1).Threats, "memory") # {}

\* C10: a signature the memory guard persists carries the type and the
\* severity of a highest-severity threat among those raised after it in the
\* call.
C10_BestNewThreat ==
  \A c \in Calls :
    \A n \in 1..Len(calls[c].mlog) :
      LET e == calls[c].mlog[n]
          new == RaisedAfter(c, e.idx)
          ts == calls[c].ctx.Threats
      IN e.added =>
           \E j \in new :
             /\ \A k \in new : ts[k].Severity <= ts[j].Severity
             /\ e.sig.ThreatType = ts[j].Type
             /\ e.sig.Severity = ts[j].Severity

\* the elements of a sequence
Range(seq) == {seq[n] : n \in 1..Len(seq)}

\* what a guard's own IsOutputGuard method answers (a guard without the method
\* is an input guard)
Declares(g) ==
  IF "output" \in DOMAIN g THEN g.output ELSE g.kind \in {"canary-detector", "output"}

\* C15: New puts every guard it is given in exactly one of the two lists, the
\* one the guard declares; Analyze runs only guards of the input list and
\* ValidateOutput only guards of the output list, and these have no guard in
\* common.
C15_DisjointPhases ==
  /\ \E sg \in ScenarioGuards :
       \A p \in Prots :
         /\ Len(prot[p].guards) + Len(prot[p].outputGuards) = Len(sg[p])
         /\ Range(prot[p].guards) = {g \in Range(sg[p]) : ~Declares(g)}
         /\ Range(prot[p].outputGuards) = {g \in Range(sg[p]) : Declares(g)}
  /\ \A p \in Prots : Range(prot[p].guards) \cap Range(prot[p].outputGuards) = {}
  /\ \A c \in Calls :
       \A n \in 1..Len(calls[c].ran) :
         LET g == GuardList(calls[c])[calls[c].ran[n]]
         IN IF calls[c].phase = "input"
            THEN g \in Range(prot[calls[c].p].guards) \ Range(prot[calls[c].p].outputGuards)
            ELSE g \in Range(prot[calls[c].p].outputGuards) \ Range(prot[calls[c].p].guards)

C15_Witness ==
  /\ \E c \in Calls :
       /\ Done(c) /\ calls[c].phase = "input"
       /\ prot[calls[c].p].outputGuards # <<>>
       /\ \E n \in 1..Len(calls[c].ran) : GuardList(calls[c])[calls[c].ran[n]] = gUserIn
  /\ \E c \in Calls :
       /\ Done(c) /\ calls[c].phase = "output"
       /\ Len(calls[c].ran) = Len(prot[calls[c].p].outputGuards)

\* C16: in one call the guards of the phase run in list order, each at most
\* once: the n-th guard to run is the n-th of the list.
C16_ListOrderOnce ==
  \A c \in Calls :
    /\ Len(calls[c].ran) <= Len(GuardList(calls[c]))
    /\ \A n \in 1..Len(calls[c].ran) : calls[c].ran[n] = n

C16_Witness ==
  /\ \E c \in Calls :
       /\ Done(c) /\ calls[c].phase = "input"
       /\ Len(calls[c].ran) >= 3
       /\ Len(calls[c].ran) = Len(GuardList(calls[c]))
       /\ Len(calls[c].mlog) = 2
  /\ \E c \in Calls :
       /\ Done(c) /\ calls[c].phase = "output"
       /\ Len(calls[c].ran) = 3

\* C14: when the store's Add returns an error the memory guard's call goes on
\* as usual: the threats recorded and the halt flag are as before the Add,
\* the guard returns, and the Result holds those threats and a verdict.
C14_AddErrorIgnored ==
  \A c \in Calls :
    \A n \in 1..Len(calls[c].mlog) :
      LET e == calls[c].mlog[n]
      IN e.err =>
           /\ e.ctx.Threats = e.before.Threats
           /\ e.ctx.Halted = e.before.Halted
           /\ e.ctx.Input = e.before.Input
           /\ calls[c].pc \in {"memlen", "unwind", "done"}
           /\ Done(c) =>
                /\ IsPrefix(e.before.Threats, ResultOf(c).Threats)
                /\ ResultOf(c).Safe = IsSafe(e.before.Threats, 50)

C14_Witness ==
  \E c \in Calls :
    /\ Done(c)
    /\ Len(calls[c].mlog) = 1
    /\ calls[c].mlog[1].err
    /\ ~ResultOf(c).Safe
    /\ c > 1
    /\ store.signatures # <<>>

\* --- the canary workflow
\* the token of a metadata map, <<>> when it holds none
TokenIn(meta) == MetaToken([Metadata |-> meta])

HasLeak(c, guard) ==
  \E n \in 1..Len(ResultOf(c).Threats) :
    /\ ResultOf(c).Threats[n].Type = "canary_leak"
    /\ ResultOf(c).Threats[n].Guard = guard

\* C13: every Analyze call and every ValidateOutput call returns a Result;
\* no guard's failure aborts the call.
C13_AlwaysVerdict == \A c \in Calls : calls[c].pc # "panicked"

\* an output that the validator's other checks let pass
NoOtherViolation(g, output) ==
  /\ checkLeaks(output) = <<>>
  /\ ForbiddenThreats(g.opts.ForbiddenPatterns, output, 1) = <<>>
  /\ ~validateLength(output, g.opts.MaxLength)

\* C17: on a Protector with the canary injector and the output validator,
\* ValidateOutput with the metadata of an Analyze returns safe=false with a
\* canary-leak threat when the output contains the injected token, and
\* safe=true when it does not and no other output check is violated.
C17_CanaryWorkflow ==
  \A c \in Calls :
    LET cr == calls[c]
        tok == TokenIn(cr.meta)
    IN (/\ cr.phase = "output"
        /\ Kinds(prot[cr.p].guards) = <<"canary">>
        /\ Kinds(prot[cr.p].outputGuards) = <<"output">>
        /\ tok # <<>>
        /\ cr.ran # <<>>)
       => /\ cr.pc # "panicked"
          /\ Done(c) =>
               IF Contains(cr.text, tok)
               THEN ~ResultOf(c).Safe /\ HasLeak(c, "output")
               ELSE NoOtherViolation(prot[cr.p].outputGuards[1], cr.text)
                      => ResultOf(c).Safe

NoiseChars == {" ", "-", "_"}

RECURSIVE IsFormOf(_, _)
\* sub is the token tok, up to the case of its letters and to spaces, dashes
\* and underscores inserted into it
IsFormOf(sub, tok) ==
  IF sub = <<>> THEN tok = <<>>
  ELSE \/ /\ tok # <<>>
          /\ LowerChar(sub[1]) = LowerChar(tok[1])
          /\ IsFormOf(Tail(sub), Tail(tok))
       \/ /\ sub[1] \in NoiseChars
          /\ IsFormOf(Tail(sub), tok)

ContainsFormOf(output, tok) ==
  \E i \in 1..Len(output) : \E j \in i..Len(output) : IsFormOf(SubSeq(output, i, j), tok)

\* the detector is the first output guard of the call's Protector and has run
DetectorRan(c) ==
  /\ calls[c].phase = "output"
  /\ prot[calls[c].p].outputGuards # <<>>
  /\ prot[calls[c].p].outputGuards[1].kind = "canary-detector"
  /\ calls[c].ran # <<>>

\* C18: given a token in the metadata, the detector raises a canary-leak
\* threat of severity 1.0 whenever the output contains the token exactly, in
\* other letter case, or with spaces, dashes or underscores inserted.
C18_DetectorForms ==
  \A c \in Calls :
    (/\ DetectorRan(c)
     /\ TokenIn(calls[c].meta) # <<>>
     /\ ContainsFormOf(calls[c].text, TokenIn(calls[c].meta)))
    => /\ calls[c].pc # "panicked"
       /\ \E n \in 1..Len(calls[c].ctx.Threats) :
            /\ calls[c].ctx.Threats[n].Type = "canary_leak"
            /\ calls[c].ctx.Threats[n].Severity = 100
            /\ calls[c].ctx.Threats[n].Guard = "canary-detector"

\* the Context that ValidateOutput hands to the first output guard
FirstContext(c) == [NewContext(calls[c].text) EXCEPT !.Metadata = calls[c].meta]

\* C19: when the metadata holds no canary token (no key, a value that is not
\* a string, or the empty string), the detector adds no threat, leaves the
\* Context as it was and calls its continuation once: the next guard runs on
\* the unchanged Context, once.
C19_NoTokenPassThrough ==
  \A c \in Calls :
    (DetectorRan(c) /\ TokenIn(calls[c].meta) = <<>>)
    => /\ calls[c].pc # "panicked"
       /\ calls[c].ran = <<1>> =>
            /\ calls[c].ctx = FirstContext(c)
            /\ calls[c].pc = "enter" /\ calls[c].idx = 2
            /\ calls[c].cut = <<>>
       /\ \A n \in 1..Len(calls[c].ctx.Threats) :
            calls[c].ctx.Threats[n].Guard # "canary-detector"
       /\ Done(c) => calls[c].ran = <<1, 2>>

\* two calls have passed the detector, one with an empty token and one with
\* a token that is not a string, on outputs that hold the test's token
C19_Witness ==
  \E c, d \in Calls :
    /\ DetectorRan(c) /\ Done(c) /\ calls[c].meta = OnlyToken(<<>>)
    /\ DetectorRan(d) /\ Done(d) /\ calls[d].meta = OnlyToken(NotAString)
    /\ Contains(calls[c].text, tokLong) /\ Contains(calls[d].text, tokLong)
    /\ calls[c].ran = <<1, 2>> /\ calls[d].ran = <<1, 2>>

\* the output holds minPartialLen or more consecutive characters of the
\* token, and not the whole token
HasFragment(output, tok) ==
  /\ ~Contains(output, tok)
  /\ \E i \in 1..Len(tok) : \E j \in i..Len(tok) :
       /\ j - i + 1 >= minPartialLen
       /\ Contains(output, SubSeq(tok, i, j))

\* C20: the detector reports a leak when the output contains a fragment of 8
\* or more characters of the token, the whole token not appearing in it.
C20_FragmentDetected ==
  \A c \in Calls :
    (/\ DetectorRan(c)
     /\ TokenIn(calls[c].meta) # <<>>
     /\ HasFragment(calls[c].text, TokenIn(calls[c].meta)))
    => \E n \in 1..Len(calls[c].ctx.Threats) :
         /\ calls[c].ctx.Threats[n].Type = "canary_leak"
         /\ calls[c].ctx.Threats[n].Guard = "canary-detector"

\* --- single detectors
\* the call c has run a Protector's only guard, the heuristic detector
HeuristicAlone(c) ==
  /\ calls[c].ran = <<1>>
  /\ Kinds(GuardList(calls[c])) = <<"heuristic">>

\* the Context the detector g has when steps 1 and 2 of Execute are over, and
\* whether Execute has returned in them
BeforeFuzzy(g, input) ==
  HeuristicEncoding(g,
    HeuristicPatterns(g, input,
      [ctx |-> NewContext(input), detected |-> FALSE, returned |-> FALSE], 1),
    EncodingOf(input))

\* the threats that step 3 added in call c
FuzzyThreats(c) ==
  SubSeq(calls[c].ctx.Threats,
         Len(BeforeFuzzy(GuardList(calls[c])[1], calls[c].text).ctx.Threats) + 1,
         Len(calls[c].ctx.Threats))

\* C21: when the fuzzy step of the heuristic detector runs, it raises one
\* instruction-override threat of severity 0.65 if two or more critical
\* keywords fuzzy-match the input, whatever their number, and none if fewer
\* than two match.
C21_OneFuzzyThreat ==
  \A c \in Calls :
    (HeuristicAlone(c) /\ ~BeforeFuzzy(GuardList(calls[c])[1], calls[c].text).returned) =>
      IF Len(FuzzyOf(calls[c].text)) >= 2
      THEN FuzzyThreats(c) = <<Threat("instruction_override", 65, "heuristic", 0, 0)>>
      ELSE FuzzyThreats(c) = <<>>

\* one call has matched three keywords and one only one, in a detector that
\* raised a pattern threat as well and in one that halts on detection
C21_Witness ==
  \E c, d \in Calls :
    /\ HeuristicAlone(c) /\ HeuristicAlone(d)
    /\ ~BeforeFuzzy(GuardList(calls[c])[1], calls[c].text).returned
    /\ ~BeforeFuzzy(GuardList(calls[d])[1], calls[d].text).returned
    /\ Len(FuzzyOf(calls[c].text)) = 3
    /\ Len(FuzzyThreats(c)) = 1
    /\ calls[c].ctx.Halted
    /\ Len(FuzzyOf(calls[d].text)) = 1
    /\ FuzzyThreats(d) = <<>>

\* the cosine of the angle between a and b is at least threshold / 100:
\* dot / sqrt(den) >= threshold / 100, without the square root
CosineAtLeast(a, b, threshold) ==
  IF a.len # b.len \/ a.len = 0 \/ SumSquares(a) = 0 \/ SumSquares(b) = 0
  THEN 0 >= threshold
  ELSE 10000 * Dot(a, b) * Dot(a, b) >= threshold * threshold * SumSquares(a) * SumSquares(b)

RECURSIVE SeveritiesFrom(_, _, _)
\* the reference vectors from index k on that the input's vector reaches,
\* each with the severity that is its cosine in hundredths
SeveritiesFrom(g, inputVec, k) ==
  IF k > Len(g.vectors) THEN <<>>
  ELSE LET v == g.vectors[k].Values
           sev == CHOOSE h \in 0..100 :
                    CosineAtLeast(inputVec, v, h) /\ ~CosineAtLeast(inputVec, v, h + 1)
       IN (IF CosineAtLeast(inputVec, v, g.opts.Threshold)
           THEN <<[Label |-> g.vectors[k].Label, Severity |-> sev]>> ELSE <<>>)
          \o SeveritiesFrom(g, inputVec, k + 1)

\* the threats expected of the embedding guards of SpecDetect on its texts,
\* computed once
ExpectedThreats ==
  [g \in {gEmbedding, gEmbeddingCustom} |->
     [t \in EmbeddingTexts |-> SeveritiesFrom(g, TextToVector(t), 1)]]

TextsCompared == gs.pc = "compared" /\ gs.in[1].isText /\ gs.in[2].isText

IsOne(sim) == sim[1] = sim[2]
IsZero(sim) == sim[1] = 0

\* C23 as stated: for all texts T1 and T2 with fewer than 3 characters each
\* the similarity of their signatures is 1.0, and it is 0.0 when exactly one
\* of the two texts has 3 or more characters.
C23_ByLength ==
  TextsCompared =>
    LET n1 == Len(gs.in[1].text)
        n2 == Len(gs.in[2].text)
    IN /\ (n1 < 3 /\ n2 < 3) => IsOne(gs.sim)
       /\ ((n1 >= 3) # (n2 >= 3)) => IsZero(gs.sim)

\* C23: for all texts T1 and T2 that have fewer than 3 characters each once
\* leading and trailing white space is removed, the similarity of their
\* signatures is 1.0; it is 0.0 when exactly one of the two has 3 or more
\* characters once leading and trailing white space is removed.
C23_ByTrimmedLength ==
  TextsCompared =>
    LET n1 == Len(TrimSpace(gs.in[1].text))
        n2 == Len(TrimSpace(gs.in[2].text))
    IN /\ (n1 < 3 /\ n2 < 3) => IsOne(gs.sim)
       /\ ((n1 >= 3) # (n2 >= 3)) => IsZero(gs.sim)

\* a text of 3 characters that keeps fewer than 3 after trimming was compared
\* with a text of fewer than 3 characters, and the similarity is 1.0
C23_Witness ==
  /\ TextsCompared
  /\ Len(gs.in[1].text) >= 3
  /\ Len(TrimSpace(gs.in[1].text)) \in 1..2
  /\ Len(gs.in[2].text) < 3
  /\ IsOne(gs.sim)

\* C24: signature similarity is symmetric: for all signatures a and b,
\* a.Similarity(b) equals b.Similarity(a).
C24_Symmetric ==
  gs.pc = "compared" =>
    gs.sim[1] * gs.rev[2] = gs.rev[1] * gs.sim[2]

\* two signatures with different trigram counts were compared and their
\* similarity lies strictly between 0 and 1
C24_Witness ==
  /\ gs.pc = "compared"
  /\ gs.sigs[1].NGrams # gs.sigs[2].NGrams
  /\ 0 < gs.sim[1]
  /\ gs.sim[1] < gs.sim[2]

\* C25: whenever the heuristic detector records at least one threat in a
\* call, the metadata key "heuristic.detected" is true when that detector's
\* Execute returns.
C25_DetectedFlag ==
  \A c \in Calls :
    (HeuristicAlone(c) /\ calls[c].ctx.Threats # <<>>) =>
      /\ HasMeta(calls[c].ctx, "heuristic.detected")
      /\ calls[c].ctx.Metadata["heuristic.detected"] = TRUE

\* C26: within one call the Context's threat list only grows by appending:
\* at every step of the pipeline the earlier list is a prefix of the later
\* one, so no detector removes, reorders or rewrites a recorded threat.
C26_AppendOnly ==
  [][\A c \in Calls : IsPrefix(calls[c].ctx.Threats, calls'[c].ctx.Threats)]_vars

\* a call's list holds threats that three different detectors appended
C26_Witness ==
  \E c \in Calls :
    /\ Len(calls[c].ctx.Threats) >= 3
    /\ Cardinality({calls[c].origin[n] : n \in 1..Len(calls[c].origin)}) >= 3

\* in call c the guard at position j, placed after the guard at position i,
\* raised a threat and halted the chain
HaltedAfter(c, i, j) ==
  /\ i < j
  /\ calls[c].ctx.Halted
  /\ calls[c].cut # <<>> /\ calls[c].cut[1].idx = j
  /\ \E n \in 1..Len(calls[c].origin) : calls[c].origin[n] = j

\* C27: if a detector placed after the memory detector raises a threat and
\* halts the chain, the memory detector still stores the signature of the
\* input and still publishes the size of the store in the metadata before
\* the call returns.
C27_LearnsWhenHalted ==
  \A c \in Calls :
    \A i \in 1..Len(GuardList(calls[c])), j \in 1..Len(GuardList(calls[c])) :
      (Done(c) /\ GuardList(calls[c])[i].kind = "memory" /\ HaltedAfter(c, i, j)) =>
        /\ \E n \in 1..Len(calls[c].mlog) :
             LET e == calls[c].mlog[n]
             IN /\ e.idx = i
                /\ e.added
                /\ SameText(e.sig, GenerateSignature(calls[c].text))
                /\ e.after # <<>> /\ e.after[Len(e.after)] = e.sig
                /\ HasMeta(e.ctx, "memory.stored")
        /\ "memory.signatures" \in DOMAIN ResultOf(c).Metadata
        /\ ResultOf(c).Metadata["memory.signatures"]
             = Len(calls[c].mlog[Len(calls[c].mlog)].after)

\* a call is done in which the heuristic detector, second after the memory
\* detector and before a third guard, raised a threat and halted the chain
C27_Witness ==
  \E c \in Calls :
    /\ Done(c)
    /\ Kinds(GuardList(calls[c])) = <<"memory", "heuristic", "func">>
    /\ HaltedAfter(c, 1, 2)
    /\ calls[c].ran = <<1, 2>>

\* the span the guard at position idx of call c reports for a leak: the
\* canary detector's from detectLeak, the output validator's from checkCanary
LeakSpan(c, idx) ==
  LET output == calls[c].ctx.Input
      tok == MetaToken(calls[c].ctx)
      at == Index(ToLower(output), ToLower(tok))
  IN IF GuardList(calls[c])[idx].kind = "canary-detector"
     THEN IF DetectorToken(calls[c].ctx).ok THEN detectLeak(output, tok)
          ELSE [matched |-> FALSE, start |-> 0, end |-> 0]
     ELSE [matched |-> tok # <<>> /\ at >= 0, start |-> at, end |-> at + Len(tok)]

\* C28: whenever the canary detector or the output validator's canary check
\* finds a leak, the span it reports satisfies 0 <= start <= end <= length of
\* the output, so extracting the matched text never reads outside the output.
C28_SpanInRange ==
  \A c \in Calls :
    \A n \in 1..Len(calls[c].ran) :
      LET idx == calls[c].ran[n]
          span == LeakSpan(c, idx)
      IN (GuardList(calls[c])[idx].kind \in {"canary-detector", "output"}
            /\ calls[c].phase = "output" /\ span.matched) =>
           /\ 0 <= span.start
           /\ span.start <= span.end
           /\ span.end <= Len(calls[c].ctx.Input)

\* the signature of a text that has fewer than 3 characters after trimming
OfShortText(sig) == sig.Length < 3

\* C29: once the store holds a signature of a text that has fewer than 3
\* characters after trimming, the memory detector flags every later input
\* that has fewer than 3 characters after trimming (the empty input included)
\* as a memory match with similarity 1.0, at any threshold <= 1.0, until that
\* signature is evicted.
C29_ShortTextsMatch ==
  \A c \in Calls :
    \A n \in 1..Len(calls[c].slog) :
      LET e == calls[c].slog[n]
      IN (/\ Len(TrimSpace(calls[c].text)) < 3
          /\ \E k \in 1..Len(e.sigs) : OfShortText(e.sigs[k])
          /\ e.threshold <= 100) =>
           /\ Len(e.raised) = 1
           /\ e.raised[1].Guard = "memory"
           /\ "memory.matched" \in DOMAIN e.meta
           /\ e.meta["memory.matched"] = TRUE
           /\ IsOne(e.meta["memory.similarity"])

\* the empty input was flagged at threshold 1.0 against a store that holds
\* the signature of another short text, and a padded text of 4 characters was
\* flagged as well
C29_Witness ==
  /\ \E c \in Calls :
       /\ calls[c].text = <<>>
       /\ Len(calls[c].slog) = 1
       /\ calls[c].slog[1].threshold = 100
       /\ \E k \in 1..Len(calls[c].slog[1].sigs) : calls[c].slog[1].sigs[k].Length \in 1..2
       /\ Len(calls[c].slog[1].raised) = 1
  /\ \E c \in Calls :
       /\ calls[c].text = tPadded
       /\ Len(calls[c].slog) = 1
       /\ Len(calls[c].slog[1].raised) = 1

RECURSIVE AddsFrom(_)
\* the signatures stored by the calls c, c + 1, ..., in the order of their Adds
AddsFrom(c) ==
  IF c > NumCalls THEN <<>>
  ELSE [n \in 1..Len(SelectSeq(calls[c].mlog, LAMBDA e : e.added /\ ~e.err)) |->
          SelectSeq(calls[c].mlog, LAMBDA e : e.added /\ ~e.err)[n].sig]
       \o AddsFrom(c + 1)

\* the store's slice after one more entry: the oldest one leaves at capacity
OneMore(had, sig, maxSize) ==
  IF Len(had) >= maxSize THEN Tail(had) \o <<sig>> ELSE had \o <<sig>>

\* C30: the store does not merge equal signatures: every call in which the
\* rest of the pipeline raises a new threat adds one more entry even when an
\* identical signature is already stored, so that confirming one text N times
\* on a store of capacity N leaves the store holding only that text's
\* signatures.
C30_NoMerge ==
  /\ \A c \in Calls :
       \A n \in 1..Len(calls[c].mlog) :
         LET e == calls[c].mlog[n]
         IN /\ e.added <=> Len(e.before.Threats) >
                             SelectSeq(calls[c].slog, LAMBDA q : q.idx = e.idx)[1].at
                             + Len(SelectSeq(calls[c].slog, LAMBDA q : q.idx = e.idx)[1].raised)
            /\ e.added => e.after = OneMore(e.had, e.sig, store.maxSize)
  /\ LET adds == AddsFrom(1)
         N == store.maxSize
     IN (Len(adds) >= N /\
         \A k \in (Len(adds) - N + 1)..Len(adds) : SameText(adds[k], adds[Len(adds)])) =>
          /\ Len(store.signatures) = N
          /\ \A k \in 1..N : SameText(store.signatures[k], adds[Len(adds)])

\* one text was confirmed as often as the store has room, by calls that found
\* an identical signature already stored, and it has displaced the signature
\* of another text
C30_Witness ==
  LET adds == AddsFrom(1)
  IN /\ Len(adds) > store.maxSize
     /\ ~SameText(adds[1], adds[Len(adds)])
     /\ \A k \in 1..Len(store.signatures) : store.signatures[k] = adds[Len(adds)]
     /\ Len(store.signatures) = store.maxSize

====
